---- MODULE Spec2Model ----
(***************************************************************************)
(* A model of the deterministic core of the Chef-to-Ansible converter:     *)
(*   - the resource mapping registry (src/src/resource_mapping.py),        *)
(*   - the recipe resource extractor (src/src/chef_parser.py).             *)
(* Text that the code lower-cases or matches against regular expressions   *)
(* is a sequence of one-character strings, so that str.lower() and the     *)
(* regular expressions are computed character by character.                *)
(***************************************************************************)
EXTENDS Integers, Sequences, FiniteSets, TLC

VARIABLES
    \* ---- ResourceMapping (one registry object and its last call)
    config_path,       \* the constructor's argument
    mappings,          \* self.mappings
    custom_handlers,   \* self.custom_handlers
    op,                \* the last operation performed on the registry
    resource_type,     \* argument of the last transform_resource call
    data_in,           \* the caller's property dict when that call started
    resource_data,     \* the caller's property dict when that call returned
    returned,          \* what that call returned: [raised, tasks]
    \* ---- transform_resource calls running in parallel on the registry
    pc,                \* per call: its position in transform_resource
    call_type,         \* per call: resource_type
    call_data,         \* per call: resource_data
    mapping,           \* per call: the local variable mapping
    item,              \* per call: index of the next property_mapping item
    ansible_task,      \* per task object: the ansible_task dict under construction
    call_result,       \* per call: the returned list
    \* ---- ChefParser._extract_resources
    blocks,            \* the resource blocks the recipe text was written from
    content,           \* the recipe text
    resources,         \* the returned list of resource records
    extracted,         \* whether _extract_resources has returned
    \* ---- ChefParser._parse_recipes
    recipe_files,      \* the *.rb files of the recipes directory, in glob order
    recipes,           \* the local list recipes, the returned list after return
    next_file,         \* index of the file the loop is at
    parse_pc,          \* idle, loop, returned or raised
    \* ---- LLMConverter._convert_erb_to_jinja
    template_tags,     \* the pieces the template text was written from
    template_content,  \* the template text
    jinja_content,     \* what _convert_erb_to_jinja returned for template_content
    jinja_again,       \* what it returned for jinja_content
    passes,            \* how many times the template went through it
    \* ---- LLMConverter._post_process_custom_resources
    result_tasks,      \* result['tasks'] as the extraction left it
    processed,         \* [raised, tasks]: the outcome of the post-processing
    processed_again,   \* the outcome of post-processing processed.tasks
    post_passes,       \* how many times the post-processing has run
    \* ---- LLMConverter._extract_ansible_code
    response_parts,    \* the parts the response text was written from
    response_text,     \* the response text
    response_extracted, \* whether _extract_ansible_code has been called
    extraction,        \* its outcome: [raised, tasks, handlers, variables]
    \* ---- one cookbook from parse_cookbook to generate_ansible_role
    cookbook_recipes,  \* parsed_cookbook['recipes']
    cookbook_templates, \* parsed_cookbook['templates']
    entry_point,       \* convert_repository or cli, none before the conversion
    convert_pc,        \* parsing, skipped, converted, failed, generated, generate_raised
    ansible_data,      \* the bundle handed to generate_ansible_role
    role_templates,    \* the files written under the role's templates directory
    \* ---- GitRepoHandler
    temp_dirs,         \* the temporary directories that exist
    clone_calls,       \* the calls of clone_repository made so far
    \* ---- registries constructed on overlay files
    registries,        \* per constructor call: [config_path, raised, mappings]
    \* ---- convert_repository
    repo_cookbooks,    \* the cookbooks of the cloned repository
    repository_pc,     \* where convert_repository is: cloned, looping, returned, raised
    cookbook_index,    \* the cookbook the loop is at
    results,           \* success_count, failed_count, details
    repo_cleaned,      \* cleanup(repo_path) has been called
    \* ---- AnsibleValidator
    validator_results, \* self.results of the validator
    validated_role,    \* the role of the last call of validate
    validation,        \* what the last call of validate returned
    validate_count,    \* the calls of validate made so far
    \* ---- repository conversion of the web UI
    web_cookbooks,     \* the cookbooks of the repository the web UI converts
    thread_pc,         \* where run_conversion is: idle, looping, done
    web_index,         \* the cookbook its loop is at
    progress_queue,    \* progress_updates[conversion_id]
    enqueued,          \* every update put on the queue so far
    delivered,         \* the updates the progress stream has sent
    stream_pc,         \* the progress stream: open, closed
    enqueued_after_close, \* an update was put after the stream had closed
    \* ---- template paths
    chef_templates,    \* the template records of one cookbook, by distinct paths
    converted_templates, \* what convert_templates returned for them
    templates_dir      \* the files written below templates/ of the role

registryVars == <<config_path, mappings, custom_handlers>>
lastCallVars == <<op, resource_type, data_in, resource_data, returned>>
parVars      == <<pc, call_type, call_data, mapping, item, ansible_task, call_result>>
parserVars   == <<blocks, content, resources, extracted>>
recipeVars   == <<recipe_files, recipes, next_file, parse_pc>>
\* the state of the stages after resource extraction
templateVars == <<template_tags, template_content, jinja_content, jinja_again, passes>>
postVars == <<result_tasks, processed, processed_again, post_passes>>
responseVars == <<response_parts, response_text, response_extracted, extraction>>
convertVars == <<cookbook_recipes, cookbook_templates, entry_point, convert_pc, ansible_data,
                 role_templates>>
cloneVars == <<temp_dirs, clone_calls>>
loadVars == <<registries>>
repositoryVars == <<repo_cookbooks, repository_pc, cookbook_index, results, repo_cleaned>>
validateVars == <<validator_results, validated_role, validation, validate_count>>
progressVars == <<web_cookbooks, thread_pc, web_index, progress_queue, enqueued, delivered, stream_pc, enqueued_after_close>>
pathsVars == <<chef_templates, converted_templates, templates_dir>>
pipelineVars ==
    <<recipeVars, templateVars, postVars, responseVars, convertVars, cloneVars,
      loadVars, repositoryVars, validateVars, progressVars, pathsVars>>
vars == <<registryVars, lastCallVars, parVars, parserVars, pipelineVars>>

(***************************************************************************)
(* Bounds of the model.                                                    *)
(***************************************************************************)
MaxProps    == 4   \* most properties in one input property set
MaxHandlers == 1   \* most resource types with a registered handler
MaxBlocks   == 3   \* most resource blocks in one recipe text
MaxFiles    == 3   \* most recipe files in one recipes directory
MaxTags     == 4   \* most pieces in one template text
MaxTasks    == 3   \* most tasks in one task list
MaxParts    == 2   \* most parts in one response
MaxRecipes  == 2   \* most recipes in one cookbook
MaxTemplates == 2  \* most templates in one cookbook
MaxClones   == 3   \* most calls of clone_repository
MaxRegistries == 3 \* most registries constructed on overlay files
MaxLines == 4      \* most lines of a template of blocks
MaxPieces == 2     \* most pieces of a template of lookups
MaxTemplateFiles == 3 \* most template files of one cookbook
MaxWebCookbooks == 2 \* most cookbooks of a repository converted by the web UI
MaxErrors == 1    \* most errors a caller appends between calls
MaxValidations == 2 \* most calls of validate on one validator
MaxCookbooks == 3  \* most cookbooks in a repository

(***************************************************************************)
(* Text.                                                                   *)
(***************************************************************************)
UpperCase == <<"A","B","C","D","E","F","G","H","I","J","K","L","M",
               "N","O","P","Q","R","S","T","U","V","W","X","Y","Z">>
LowerCase == <<"a","b","c","d","e","f","g","h","i","j","k","l","m",
               "n","o","p","q","r","s","t","u","v","w","x","y","z">>
Digits    == {"0","1","2","3","4","5","6","7","8","9"}

Range(s) == {s[i] : i \in DOMAIN s}

\* str.lower() on one character
LowerChar(c) ==
    IF c \in Range(UpperCase)
    THEN LowerCase[CHOOSE i \in DOMAIN UpperCase : UpperCase[i] = c]
    ELSE c

\* str(value).lower()
lower(s) == [i \in DOMAIN s |-> LowerChar(s[i])]

S_true    == <<"t","r","u","e">>
S_True    == <<"T","r","u","e">>
S_false   == <<"f","a","l","s","e">>
S_False   == <<"F","a","l","s","e">>
S_FALSE   == <<"F","A","L","S","E">>
S_maybe   == <<"m","a","y","b","e">>
S_present == <<"p","r","e","s","e","n","t">>
S_absent  == <<"a","b","s","e","n","t">>
S_started == <<"s","t","a","r","t","e","d">>
S_stopped == <<"s","t","o","p","p","e","d">>
S_enabled == <<"e","n","a","b","l","e","d">>
S_disabled == <<"d","i","s","a","b","l","e","d">>
S_start   == <<"s","t","a","r","t">>
S_stop    == <<"s","t","o","p">>
S_enable  == <<"e","n","a","b","l","e">>
S_disable == <<"d","i","s","a","b","l","e">>
S_default == <<"d","e","f","a","u","l","t">>
S_d       == <<"d">>
S_h       == <<"h">>
S_u       == <<"u">>
S_p       == <<"p">>
S_utf8    == <<"u","t","f","8">>
S_value1  == <<"v","a","l","u","e","1">>

(***************************************************************************)
(* The mapping tables.  An entry is the JSON object                        *)
(*   {"ansible_module": m, "property_mapping": {chef: ansible, ...,        *)
(*                         "value_mapping": {chef: {value: value}}}}       *)
(* property_mapping is kept in the dict's insertion order, the order       *)
(* .items() iterates in; its "value_mapping" key, which the loop skips,    *)
(* is the entry's value_mapping field.                                     *)
(***************************************************************************)
NoMap == << >>

Entry(module, pm, vm) ==
    [ansible_module |-> module, property_mapping |-> pm, value_mapping |-> vm]

EnableValues == (S_true :> S_present) @@ (S_false :> S_absent)

DatabaseProperties ==
    << <<"database_name", "name">>, <<"connection", "login_host">>,
       <<"user", "login_user">>, <<"password", "login_password">> >>

DefaultMappings ==
    ("mysql_database" :>
        Entry("community.mysql.mysql_db", DatabaseProperties, NoMap))
 @@ ("postgresql_database" :>
        Entry("community.postgresql.postgresql_db", DatabaseProperties, NoMap))
 @@ ("apache2_site" :>
        Entry("community.general.apache2_module",
              << <<"site_name", "name">>, <<"enable", "state">> >>,
              ("enable" :> EnableValues)))
 @@ ("nginx_site" :>
        Entry("community.general.nginx_site",
              << <<"site_name", "name">>, <<"enable", "state">> >>,
              ("enable" :> EnableValues)))
 @@ ("cron_job" :>
        Entry("ansible.builtin.cron",
              << <<"name", "name">>, <<"command", "job">>, <<"minute", "minute">>,
                 <<"hour", "hour">>, <<"day", "day">>, <<"month", "month">>,
                 <<"weekday", "weekday">>, <<"user", "user">> >>,
              NoMap))
 @@ ("systemd_unit" :>
        Entry("ansible.builtin.systemd",
              << <<"unit_name", "name">>, <<"action", "state">> >>,
              ("action" :> ((S_start :> S_started) @@ (S_stop :> S_stopped)
                            @@ (S_enable :> S_enabled) @@ (S_disable :> S_disabled)))))

\* self.mappings = {...}
_load_default_mappings == DefaultMappings

(***************************************************************************)
(* The mapping files a registry is constructed with.                       *)
(***************************************************************************)
NoConfig == ""

\* the overlay of tests/test_upstream_custom_resources.py: a new key and a
\* key of the built-in table
UpstreamMappings ==
    ("apache2_module" :>
        Entry("community.general.apache2_module",
              << <<"module_name", "name">>, <<"enable", "state">> >>,
              ("enable" :> EnableValues)))
 @@ ("apache2_site" :>
        Entry("community.general.apache2_site",
              << <<"site_name", "name">>, <<"enable", "state">> >>,
              ("enable" :> EnableValues)))

\* an overlay that replaces two built-in keys: fewer rename pairs for one,
\* value-substitution keys written with capitals for the other
OverrideMappings ==
    ("mysql_database" :>
        Entry("mysql_db",
              << <<"database_name", "db">>, <<"encoding", "encoding">> >>,
              NoMap))
 @@ ("apache2_site" :>
        Entry("apache2_site",
              << <<"enable", "state">> >>,
              ("enable" :> ((S_True :> S_present) @@ (S_False :> S_absent)))))

ConfigFiles ==
    ("upstream.json" :> UpstreamMappings) @@ ("override.json" :> OverrideMappings)

\* a path with no readable JSON object behind it
ConfigPaths == {NoConfig, "missing.json"} \cup DOMAIN ConfigFiles

\* for resource, mapping in custom_mappings.items(): self.mappings[resource] = mapping
MergeMerged(mp, custom_mappings) ==
    [k \in DOMAIN mp \cup DOMAIN custom_mappings |->
        IF k \in DOMAIN custom_mappings /\ k \in DOMAIN mp
        THEN Entry(custom_mappings[k].ansible_module,
                   mp[k].property_mapping \o custom_mappings[k].property_mapping,
                   custom_mappings[k].value_mapping @@ mp[k].value_mapping)
        ELSE IF k \in DOMAIN custom_mappings THEN custom_mappings[k] ELSE mp[k]]

Merge(mp, custom_mappings) ==
    [k \in DOMAIN mp \cup DOMAIN custom_mappings |->
        IF k \in DOMAIN custom_mappings THEN custom_mappings[k] ELSE mp[k]]

\* with open(config_path, 'r') as f: custom_mappings = json.load(f): the
\* value loaded, or the exception raised (any other path is no file)
JsonLoad(path) ==
    CASE path \in DOMAIN ConfigFiles -> [kind |-> "object", value |-> ConfigFiles[path]]
      [] path = "malformed.json" -> [kind |-> "JSONDecodeError"]
      [] path = "array.json" -> [kind |-> "array", value |-> <<UpstreamMappings>>]
      [] path = "null.json" -> [kind |-> "null"]
      [] OTHER -> [kind |-> "FileNotFoundError"]

\* a load that applies the entries it finds in the first element of a list
_load_custom_mappings_partial(mp, path) ==
    IF JsonLoad(path).kind = "object" THEN Merge(mp, JsonLoad(path).value)
    ELSE IF JsonLoad(path).kind = "array" THEN Merge(mp, JsonLoad(path).value[1])
    ELSE mp

\* open() or json.load() raising, and .items() raising on a value that is
\* no object, are caught and logged: the table is left as it was
_load_custom_mappings(mp, path) ==
    IF JsonLoad(path).kind = "object" THEN Merge(mp, JsonLoad(path).value) ELSE mp

\* ResourceMapping.__init__: the table part
__init__(path) ==
    IF path # NoConfig
    THEN _load_custom_mappings(_load_default_mappings, path)
    ELSE _load_default_mappings

(***************************************************************************)
(* Handlers: functions from a property dict to a list of tasks.            *)
(***************************************************************************)
Task(name, module, params) == [name |-> name, module |-> module, params |-> params]

get(d, k, default) == IF k \in DOMAIN d THEN d[k] ELSE default

\* the handler of tests/test_resource_mapping.py
custom_handler(rd) ==
    << Task(<<"Custom handled resource">>, "custom.module",
            ("param1" :> get(rd, "prop1", S_default))
         @@ ("param2" :> get(rd, "prop2", S_default))) >>

\* a handler that emits no task
empty_handler(rd) == << >>

Handlers == {"custom_handler", "empty_handler"}

Call(h, rd) == IF h = "custom_handler" THEN custom_handler(rd) ELSE empty_handler(rd)

has_custom_handler(ch, rt) == rt \in DOMAIN ch

apply_custom_handler(ch, rt, rd) ==
    IF ~has_custom_handler(ch, rt) THEN << >> ELSE Call(ch[rt], rd)

\* self.mappings.get(resource_type): the empty sequence stands for None
get_mapping(mp, rt) == IF rt \in DOMAIN mp THEN <<mp[rt]>> ELSE << >>

(***************************************************************************)
(* transform_resource                                                      *)
(***************************************************************************)
Outcome(raised, tasks, mp, ch, rd) ==
    [raised |-> raised, tasks |-> tasks,
     mappings |-> mp, custom_handlers |-> ch, resource_data |-> rd]

\* the placeholder task of an unmapped type
Placeholder(rt) ==
    Task(<<"TODO: Convert Chef custom resource '", rt, "'">>,
         "ansible.builtin.debug",
         ("msg" :> <<"Chef custom resource '", rt, "' requires manual conversion">>))

NoPlaceholderRaises(rt) == [raised |-> TRUE, tasks |-> << >>]

\* the return value for a type with neither handler nor mapping
Unmapped(rt) == [raised |-> FALSE, tasks |-> <<Placeholder(rt)>>]

\* value_mapping[str(value).lower()] when the table has that key, else value
Substitute(vm, chef_prop, value) ==
    LET value_mapping == get(vm, chef_prop, NoMap)
    IN  IF value_mapping # NoMap /\ lower(value) \in DOMAIN value_mapping
        THEN value_mapping[lower(value)]
        ELSE value

\* one iteration of the loop over property_mapping.items(): params is
\* ansible_task[ansible_module]
MapProperty(params, e, i, rd) ==
    LET chef_prop    == e.property_mapping[i][1]
        ansible_prop == e.property_mapping[i][2]
    IN  IF chef_prop \in DOMAIN rd
        THEN (ansible_prop :> Substitute(e.value_mapping, chef_prop, rd[chef_prop])) @@ params
        ELSE params

RECURSIVE MapProperties(_, _, _, _)
MapProperties(params, e, i, rd) ==
    IF i > Len(e.property_mapping) THEN params
    ELSE MapProperties(MapProperty(params, e, i, rd), e, i + 1, rd)

ConvertedName(rt) == <<"Converted from Chef custom resource '", rt, "'">>

\* a transform that consumes the properties it maps from the caller's dict
transform_resource_pop(mp, ch, rt, rd) ==
    IF has_custom_handler(ch, rt)
    THEN Outcome(FALSE, apply_custom_handler(ch, rt, rd), mp, ch, rd)
    ELSE IF get_mapping(mp, rt) = << >>
    THEN Outcome(Unmapped(rt).raised, Unmapped(rt).tasks, mp, ch, rd)
    ELSE LET e == get_mapping(mp, rt)[1]
         IN  Outcome(FALSE,
                     << Task(ConvertedName(rt), e.ansible_module,
                             MapProperties(NoMap, e, 1, rd)) >>,
                     mp, ch,
                     [k \in DOMAIN rd \ {e.property_mapping[i][1] :
                                           i \in DOMAIN e.property_mapping} |-> rd[k]])

\* a transform that looks the table up before the handlers
transform_resource_table_first(mp, ch, rt, rd) ==
    IF get_mapping(mp, rt) # << >>
    THEN LET e == get_mapping(mp, rt)[1]
         IN  Outcome(FALSE,
                     << Task(ConvertedName(rt), e.ansible_module,
                             MapProperties(NoMap, e, 1, rd)) >>,
                     mp, ch, rd)
    ELSE IF has_custom_handler(ch, rt)
    THEN Outcome(FALSE, apply_custom_handler(ch, rt, rd), mp, ch, rd)
    ELSE Outcome(Unmapped(rt).raised, Unmapped(rt).tasks, mp, ch, rd)

\* the outcome of transform_resource(resource_type, resource_data): what it
\* returns and the objects it was given, as they are when it returns
transform_resource(mp, ch, rt, rd) ==
    IF has_custom_handler(ch, rt)
    THEN Outcome(FALSE, apply_custom_handler(ch, rt, rd), mp, ch, rd)
    ELSE IF get_mapping(mp, rt) = << >>
    THEN Outcome(Unmapped(rt).raised, Unmapped(rt).tasks, mp, ch, rd)
    ELSE LET e == get_mapping(mp, rt)[1]
         IN  Outcome(FALSE,
                     << Task(ConvertedName(rt), e.ansible_module,
                             MapProperties(NoMap, e, 1, rd)) >>,
                     mp, ch, rd)

(***************************************************************************)
(* The calls made on the registry.                                         *)
(***************************************************************************)
CallTypes == {"mysql_database", "apache2_site", "apache2_module",
              "totally_unknown_type", "custom_resource"}

HandlerTypes == {"mysql_database", "apache2_module", "custom_resource"}

InputProps == {"database_name", "connection", "user", "password",
               "enable", "encoding", "prop1"}

\* the values the properties of one input take together
ValueAssignments ==
    { ("database_name" :> S_d) @@ ("connection" :> S_h) @@ ("user" :> S_u)
        @@ ("password" :> S_p) @@ ("enable" :> S_true) @@ ("encoding" :> S_utf8)
        @@ ("prop1" :> S_value1) }
    \cup { [p \in InputProps |-> v] : v \in {S_True, S_false, S_FALSE, S_maybe} }

PropertySets ==
    { [p \in S |-> va[p]] : S \in {T \in SUBSET InputProps : Cardinality(T) <= MaxProps},
                            va \in ValueAssignments }

Idle == "idle"
EmptyTask == Task(<< >>, "", NoMap)
NoCall == [raised |-> FALSE, tasks |-> << >>]

(***************************************************************************)
(* ChefParser._extract_resources.  Recipe text is a sequence of            *)
(* characters; the two regular expressions are matched as re matches them  *)
(* (leftmost match, alternatives in order, greedy and lazy repetition,     *)
(* backtracking, DOTALL).                                                  *)
(***************************************************************************)
W_package == <<"p","a","c","k","a","g","e">>
W_service == <<"s","e","r","v","i","c","e">>
W_template == <<"t","e","m","p","l","a","t","e">>
W_cookbook_file == <<"c","o","o","k","b","o","o","k","_","f","i","l","e">>
W_file == <<"f","i","l","e">>
W_directory == <<"d","i","r","e","c","t","o","r","y">>
W_execute == <<"e","x","e","c","u","t","e">>
W_bash == <<"b","a","s","h">>
W_ruby_block == <<"r","u","b","y","_","b","l","o","c","k">>
W_cron == <<"c","r","o","n">>
W_user == <<"u","s","e","r">>
W_group == <<"g","r","o","u","p">>
W_mount == <<"m","o","u","n","t">>
W_remote_file == <<"r","e","m","o","t","e","_","f","i","l","e">>
W_git == <<"g","i","t">>
W_apt_repository == <<"a","p","t","_","r","e","p","o","s","i","t","o","r","y">>
W_yum_repository == <<"y","u","m","_","r","e","p","o","s","i","t","o","r","y">>
W_apt_update == <<"a","p","t","_","u","p","d","a","t","e">>

\* resource_types, in the order of the alternation of resource_pattern
resource_types ==
    << W_package, W_service, W_template, W_cookbook_file,
       W_file, W_directory, W_execute, W_bash,
       W_ruby_block, W_cron, W_user, W_group,
       W_mount, W_remote_file, W_git, W_apt_repository,
       W_yum_repository, W_apt_update >>

W_do  == <<"d","o">>
W_end == <<"e","n","d">>

Quotes == {"'", "\""}

\* \s
IsSpace(c) == c \in {" ", "\t", "\n", "\r", "\f"}

\* \w
IsWord(c) == c \in Range(LowerCase) \cup Range(UpperCase) \cup Digits \cup {"_"}

Sub(text, from, to) == IF from > to THEN << >> ELSE SubSeq(text, from, to)

\* the least position of a set of positions, 0 if the set is empty
First(S) == IF S = {} THEN 0 ELSE CHOOSE i \in S : \A k \in S : i <= k

\* the literal w is in text at position i
StartsWith(text, i, w) ==
    /\ i + Len(w) - 1 <= Len(text)
    /\ \A k \in 1..Len(w) : text[i + k - 1] = w[k]

\* the end of the run of white space (\s*) that starts at i
RECURSIVE SkipSpaces(_, _)
SkipSpaces(text, i) ==
    IF i <= Len(text) /\ IsSpace(text[i]) THEN SkipSpaces(text, i + 1) ELSE i

\* the end of the run of word characters (\w*) that starts at i
RECURSIVE WordEnd(_, _)
WordEnd(text, i) ==
    IF i <= Len(text) /\ IsWord(text[i]) THEN WordEnd(text, i + 1) ELSE i

\* the end of the run of [^'"] that starts at i
RECURSIVE FindQuote(_, _)
FindQuote(text, i) ==
    IF i <= Len(text) /\ text[i] \notin Quotes THEN FindQuote(text, i + 1) ELSE i

\* (.*?)\s+end from j on: the first position at or after j where \s+end
\* matches, 0 if there is none
FindEnd(text, j) ==
    First({k \in j..Len(text) :
              IsSpace(text[k]) /\ StartsWith(text, SkipSpaces(text, k), W_end)})

NoMatch == [ok |-> FALSE]

BlockMatch(type, name, body, start, stop) ==
    [ok |-> TRUE, type |-> type, name |-> name, body |-> body,
     start |-> start, stop |-> stop]

\* resource_pattern with the keyword kw, tried at position i:
\*   kw \s+ ['"] ([^'"]+) ['"] \s+ do \s+ (.*?) \s+ end
\* \s+ after do is greedy: the body starts after all the white space, and
\* only when no \s+end follows does \s+ give one character back, which
\* matches an empty body before an end that follows directly.
MatchKeywordAnywhere(text, i, kw) ==
    LET a  == i + Len(kw)
        q  == SkipSpaces(text, a)
        n  == FindQuote(text, q + 1)
        d  == SkipSpaces(text, n + 1)
        b  == SkipSpaces(text, d + 2)
        j  == FindEnd(text, b)
    IN  IF ~StartsWith(text, i, kw) THEN NoMatch
        ELSE IF ~(q > a /\ q <= Len(text) /\ text[q] \in Quotes) THEN NoMatch
        ELSE IF ~(n > q + 1 /\ n <= Len(text)) THEN NoMatch
        ELSE IF ~(d > n + 1 /\ StartsWith(text, d, W_do) /\ b > d + 2) THEN NoMatch
        ELSE IF j # 0
        THEN BlockMatch(kw, Sub(text, q + 1, n - 1), Sub(text, b, j - 1),
                        i, SkipSpaces(text, j) + 3)
        ELSE IF b - (d + 2) >= 2 /\ StartsWith(text, b, W_end)
        THEN BlockMatch(kw, Sub(text, q + 1, n - 1), << >>, i, b + 3)
        ELSE NoMatch

MatchKeyword(text, i, kw) == MatchKeywordAnywhere(text, i, kw)

\* the alternation (package|service|...) at position i
RECURSIVE MatchAt(_, _, _)
MatchAt(text, i, t) ==
    IF t > Len(resource_types) THEN NoMatch
    ELSE LET m == MatchKeyword(text, i, resource_types[t])
         IN  IF m.ok THEN m ELSE MatchAt(text, i, t + 1)

\* str.strip()
RECURSIVE strip(_)
strip(s) ==
    IF s = << >> THEN s
    ELSE IF IsSpace(s[1]) THEN strip(Tail(s))
    ELSE IF IsSpace(s[Len(s)]) THEN strip(Sub(s, 1, Len(s) - 1))
    ELSE s

\* the lookahead \n\s+\w+\s+ at position q
Lookahead(rc, q) ==
    /\ q <= Len(rc)
    /\ rc[q] = "\n"
    /\ LET r  == SkipSpaces(rc, q + 1)
           r2 == WordEnd(rc, r)
       IN  r > q + 1 /\ r2 > r /\ r2 <= Len(rc) /\ IsSpace(rc[r2])

\* (.+?)(?=\n\s+\w+\s+|\Z) from q on: where the value stops
ValueEnd(rc, q) == First({k \in q..(Len(rc) + 1) : k > Len(rc) \/ Lookahead(rc, k)})

PropMatch(name, value, stop) == [ok |-> TRUE, name |-> name, value |-> value, stop |-> stop]

\* (\w+)\s+(.+?)(?=\n\s+\w+\s+|\Z) tried at position i
PropAt(rc, i) ==
    LET w == WordEnd(rc, i)
        v == SkipSpaces(rc, w)
    IN  IF ~(w > i /\ v > w) THEN NoMatch
        ELSE IF v <= Len(rc)
        THEN PropMatch(Sub(rc, i, w - 1), strip(Sub(rc, v, ValueEnd(rc, v + 1) - 1)),
                       ValueEnd(rc, v + 1))
        ELSE IF v - w >= 2
        THEN PropMatch(Sub(rc, i, w - 1), << >>, v)
        ELSE NoMatch

\* properties[prop_name] = prop_value with the first assignment kept
SetPropertyKeepFirst(properties, prop_name, prop_value) ==
    properties @@ (prop_name :> prop_value)

\* properties[prop_name] = prop_value
SetProperty(properties, prop_name, prop_value) ==
    (prop_name :> prop_value) @@ properties

\* for prop_match in re.finditer(...): properties[prop_name] = prop_value
RECURSIVE Properties(_, _, _)
Properties(rc, pos, properties) ==
    LET i == First({k \in pos..Len(rc) : PropAt(rc, k).ok})
    IN  IF i = 0 THEN properties
        ELSE Properties(rc, PropAt(rc, i).stop,
                        SetProperty(properties, PropAt(rc, i).name, PropAt(rc, i).value))

Resource(text, m) ==
    [type |-> m.type, name |-> m.name,
     properties |-> Properties(m.body, 1, NoMap),
     raw_content |-> Sub(text, m.start, m.stop - 1)]

\* for match in re.finditer(resource_pattern, content, re.DOTALL): resources.append(...)
RECURSIVE FindResources(_, _)
FindResources(text, pos) ==
    LET i == First({k \in pos..Len(text) : MatchAt(text, k, 1).ok})
    IN  IF i = 0 THEN << >>
        ELSE <<Resource(text, MatchAt(text, i, 1))>>
             \o FindResources(text, MatchAt(text, i, 1).stop)

_extract_resources(text) == FindResources(text, 1)

(***************************************************************************)
(* Spec: one registry, constructed, then handler registrations and         *)
(* transform_resource calls one after the other.                           *)
(***************************************************************************)
InitRegistry ==
    /\ config_path \in ConfigPaths
    /\ mappings = __init__(config_path)
    /\ custom_handlers = NoMap

InitLastCall ==
    /\ op = "__init__"
    /\ resource_type = ""
    /\ data_in = NoMap
    /\ resource_data = NoMap
    /\ returned = NoCall

Calls == {"call1", "call2"}

InitPar ==
    /\ pc = [c \in Calls |-> Idle]
    /\ call_type = [c \in Calls |-> ""]
    /\ call_data = [c \in Calls |-> NoMap]
    /\ mapping = [c \in Calls |-> << >>]
    /\ item = [c \in Calls |-> 0]
    /\ ansible_task = [c \in Calls |-> EmptyTask]
    /\ call_result = [c \in Calls |-> NoCall]

InitParser ==
    /\ blocks = << >>
    /\ content = << >>
    /\ resources = << >>
    /\ extracted = FALSE

\* recipes = [] before _parse_recipes is called on an empty directory
InitRecipes ==
    /\ recipe_files = << >>
    /\ recipes = << >>
    /\ next_file = 0
    /\ parse_pc = "idle"

InitTemplate ==
    /\ template_tags = << >>
    /\ template_content = << >>
    /\ jinja_content = << >>
    /\ jinja_again = << >>
    /\ passes = 0

InitPost ==
    /\ result_tasks = << >>
    /\ processed = [raised |-> FALSE, tasks |-> << >>]
    /\ processed_again = [raised |-> FALSE, tasks |-> << >>]
    /\ post_passes = 0

InitResponse ==
    /\ response_parts = << >>
    /\ response_text = << >>
    /\ response_extracted = FALSE
    /\ extraction = [raised |-> FALSE, tasks |-> << >>, handlers |-> << >>,
                     variables |-> [kind |-> "mapping", value |-> << >>]]

InitConvert ==
    /\ cookbook_recipes = << >>
    /\ cookbook_templates = << >>
    /\ entry_point = "none"
    /\ convert_pc = "parsing"
    /\ ansible_data = [tasks |-> << >>, handlers |-> << >>, variables |-> << >>]
    /\ role_templates = << >>

InitClone ==
    /\ temp_dirs = {}
    /\ clone_calls = << >>

InitLoad == registries = << >>

InitRepository ==
    /\ repo_cookbooks = << >>
    /\ repository_pc = "cloned"
    /\ cookbook_index = 0
    /\ results = [success_count |-> 0, failed_count |-> 0, details |-> << >>]
    /\ repo_cleaned = FALSE

InitValidate ==
    /\ validator_results = [errors |-> << >>, warnings |-> << >>, passed |-> << >>]
    /\ validated_role = "none"
    /\ validation = "none"
    /\ validate_count = 0

InitProgress ==
    /\ web_cookbooks = << >>
    /\ thread_pc = "idle"
    /\ web_index = 0
    /\ progress_queue = << >>
    /\ enqueued = << >>
    /\ delivered = << >>
    /\ stream_pc = "open"
    /\ enqueued_after_close = FALSE

InitPaths ==
    /\ chef_templates = << >>
    /\ converted_templates = << >>
    /\ templates_dir = << >>

InitPipeline ==
    /\ InitRecipes /\ InitTemplate /\ InitPost /\ InitResponse /\ InitConvert
    /\ InitClone /\ InitLoad /\ InitRepository /\ InitValidate /\ InitProgress
    /\ InitPaths

Init == InitRegistry /\ InitLastCall /\ InitPar /\ InitParser /\ InitPipeline

\* self.custom_handlers[resource_type] = handler_func
register_custom_handler(rt, h) ==
    /\ op # "transform_resource"
    /\ Cardinality(DOMAIN custom_handlers \cup {rt}) <= MaxHandlers
    /\ custom_handlers' = (rt :> h) @@ custom_handlers
    /\ op' = "register_custom_handler"
    /\ UNCHANGED <<config_path, mappings, resource_type, data_in, resource_data,
                   returned, parVars, parserVars, pipelineVars>>

TransformResource(rt, rd) ==
    LET o == transform_resource(mappings, custom_handlers, rt, rd)
    IN  /\ op # "transform_resource"
        /\ op' = "transform_resource"
        /\ resource_type' = rt
        /\ data_in' = rd
        /\ resource_data' = o.resource_data
        /\ returned' = [raised |-> o.raised, tasks |-> o.tasks]
        /\ mappings' = o.mappings
        /\ custom_handlers' = o.custom_handlers
        /\ UNCHANGED <<config_path, parVars, parserVars, pipelineVars>>

Register == \E rt \in HandlerTypes, h \in Handlers : register_custom_handler(rt, h)

Transform == \E rt \in CallTypes, rd \in PropertySets : TransformResource(rt, rd)

\* the caller takes the returned list and moves on
TakeResult ==
    /\ op = "transform_resource"
    /\ op' = "taken"
    /\ resource_type' = ""
    /\ data_in' = NoMap
    /\ resource_data' = NoMap
    /\ returned' = NoCall
    /\ UNCHANGED <<registryVars, parVars, parserVars, pipelineVars>>

Next == Register \/ Transform \/ TakeResult

Spec == Init /\ [][Next]_vars

(***************************************************************************)
(* SpecPar: transform_resource calls running in parallel on one registry,  *)
(* each advancing one statement at a time.  Handlers are registered only   *)
(* while no call is running.                                               *)
(***************************************************************************)
ParTypes == {"mysql_database", "apache2_site", "totally_unknown_type", "custom_resource"}

ParPropertySets ==
    {rd \in PropertySets :
        /\ DOMAIN rd \in {{"database_name", "connection", "enable"}, {"enable", "prop1"}}
        /\ Range(rd) \cap {S_false, S_FALSE, S_maybe} = {}}

\* the dict object a call builds its task in: some one dict shared by all calls
TaskObjectShared(c) == CHOOSE o \in Calls : TRUE

\* the dict object a call builds its task in: ansible_task is a local variable
TaskObject(c) == c

ParCall(c, rt, rd) ==
    /\ pc[c] = Idle
    /\ pc' = [pc EXCEPT ![c] = "has_custom_handler"]
    /\ call_type' = [call_type EXCEPT ![c] = rt]
    /\ call_data' = [call_data EXCEPT ![c] = rd]
    /\ UNCHANGED <<registryVars, lastCallVars, mapping, item, ansible_task,
                   call_result, parserVars, pipelineVars>>

\* if self.has_custom_handler(resource_type):
ParHasCustomHandler(c) ==
    /\ pc[c] = "has_custom_handler"
    /\ pc' = [pc EXCEPT ![c] =
                IF has_custom_handler(custom_handlers, call_type[c])
                THEN "apply_custom_handler" ELSE "get_mapping"]
    /\ UNCHANGED <<registryVars, lastCallVars, call_type, call_data, mapping, item,
                   ansible_task, call_result, parserVars, pipelineVars>>

\* return self.apply_custom_handler(resource_type, resource_data)
ParApplyCustomHandler(c) ==
    /\ pc[c] = "apply_custom_handler"
    /\ call_result' = [call_result EXCEPT ![c] =
            [raised |-> FALSE,
             tasks |-> apply_custom_handler(custom_handlers, call_type[c], call_data[c])]]
    /\ pc' = [pc EXCEPT ![c] = "done"]
    /\ UNCHANGED <<registryVars, lastCallVars, call_type, call_data, mapping, item,
                   ansible_task, parserVars, pipelineVars>>

\* mapping = self.get_mapping(resource_type); if not mapping: return [placeholder]
ParGetMapping(c) ==
    /\ pc[c] = "get_mapping"
    /\ mapping' = [mapping EXCEPT ![c] = get_mapping(mappings, call_type[c])]
    /\ IF get_mapping(mappings, call_type[c]) = << >>
       THEN /\ call_result' = [call_result EXCEPT ![c] = Unmapped(call_type[c])]
            /\ pc' = [pc EXCEPT ![c] = "done"]
       ELSE /\ pc' = [pc EXCEPT ![c] = "ansible_task"]
            /\ UNCHANGED call_result
    /\ UNCHANGED <<registryVars, lastCallVars, call_type, call_data, item,
                   ansible_task, parserVars, pipelineVars>>

\* ansible_task = {"name": ..., ansible_module: {}}
ParNewTask(c) ==
    /\ pc[c] = "ansible_task"
    /\ ansible_task' = [ansible_task EXCEPT ![TaskObject(c)] =
            Task(ConvertedName(call_type[c]), mapping[c][1].ansible_module, NoMap)]
    /\ item' = [item EXCEPT ![c] = 1]
    /\ pc' = [pc EXCEPT ![c] = "map_properties"]
    /\ UNCHANGED <<registryVars, lastCallVars, call_type, call_data, mapping,
                   call_result, parserVars, pipelineVars>>

\* one iteration of: for chef_prop, ansible_prop in property_mapping.items()
ParMapProperty(c) ==
    /\ pc[c] = "map_properties"
    /\ item[c] <= Len(mapping[c][1].property_mapping)
    /\ ansible_task' = [ansible_task EXCEPT ![TaskObject(c)].params =
            MapProperty(@, mapping[c][1], item[c], call_data[c])]
    /\ item' = [item EXCEPT ![c] = @ + 1]
    /\ UNCHANGED <<registryVars, lastCallVars, pc, call_type, call_data, mapping,
                   call_result, parserVars, pipelineVars>>

\* return [ansible_task]
ParReturn(c) ==
    /\ pc[c] = "map_properties"
    /\ item[c] > Len(mapping[c][1].property_mapping)
    /\ call_result' = [call_result EXCEPT ![c] =
            [raised |-> FALSE, tasks |-> <<ansible_task[TaskObject(c)]>>]]
    /\ pc' = [pc EXCEPT ![c] = "done"]
    /\ UNCHANGED <<registryVars, lastCallVars, call_type, call_data, mapping, item,
                   ansible_task, parserVars, pipelineVars>>

\* the caller takes the returned list; the call's locals are gone
ParTake(c) ==
    /\ pc[c] = "done"
    /\ pc' = [pc EXCEPT ![c] = Idle]
    /\ call_type' = [call_type EXCEPT ![c] = ""]
    /\ call_data' = [call_data EXCEPT ![c] = NoMap]
    /\ mapping' = [mapping EXCEPT ![c] = << >>]
    /\ item' = [item EXCEPT ![c] = 0]
    /\ ansible_task' = [ansible_task EXCEPT ![c] = EmptyTask]
    /\ call_result' = [call_result EXCEPT ![c] = NoCall]
    /\ UNCHANGED <<registryVars, lastCallVars, parserVars, pipelineVars>>

\* a handler is registered while no call is running
ParRegister ==
    /\ \A c \in Calls : pc[c] = Idle
    /\ Register

ParStart == \E c \in Calls, rt \in ParTypes, rd \in ParPropertySets : ParCall(c, rt, rd)

ParStep ==
    \E c \in Calls :
        \/ ParHasCustomHandler(c)
        \/ ParApplyCustomHandler(c)
        \/ ParGetMapping(c)
        \/ ParNewTask(c)
        \/ ParMapProperty(c)
        \/ ParReturn(c)
        \/ ParTake(c)

NextPar == ParRegister \/ ParStart \/ ParStep

SpecPar == Init /\ [][NextPar]_vars

\* what a call returns when it runs alone on the registry
Alone(rt, rd) ==
    LET o == transform_resource(mappings, custom_handlers, rt, rd)
    IN  [raised |-> o.raised, tasks |-> o.tasks]

\* C7: transform_resource calls running in parallel on one registry, in any
\* interleaving and with no registration or load running beside them, each
\* return what the call would return running alone.
C7_ParallelAsAlone ==
    \A c \in Calls :
        pc[c] = "done" => call_result[c] = Alone(call_type[c], call_data[c])

C7_Witness ==
    /\ pc["call1"] = "done"
    /\ pc["call2"] = "map_properties"
    /\ item["call2"] = 2
    /\ call_type["call1"] = "mysql_database"
    /\ call_type["call2"] = "mysql_database"
    /\ call_data["call1"] # call_data["call2"]
    /\ Len(call_result["call1"].tasks) = 1
    /\ DOMAIN call_result["call1"].tasks[1].params # {}
    /\ call_result["call1"].tasks[1] # ansible_task[TaskObject("call2")]

(***************************************************************************)
(* Claims about the registry, checked under Spec.                          *)
(***************************************************************************)
JustTransformed == op = "transform_resource"

HandlerPath == JustTransformed /\ has_custom_handler(custom_handlers, resource_type)

TablePath ==
    /\ JustTransformed
    /\ ~has_custom_handler(custom_handlers, resource_type)
    /\ resource_type \in DOMAIN mappings

PlaceholderPath ==
    /\ JustTransformed
    /\ ~has_custom_handler(custom_handlers, resource_type)
    /\ resource_type \notin DOMAIN mappings

\* the rename pairs of an entry, and those whose source property is in rd
Pairs(e) == Range(e.property_mapping)
PresentPairs(e, rd) == {pr \in Pairs(e) : pr[1] \in DOMAIN rd}

\* C1: a call for a type with a registered handler returns exactly what the
\* handler returns for the call's properties, whether or not the table (built-in
\* or overlay) has an entry for the type.
C1_HandlerBeforeTable ==
    HandlerPath =>
        /\ ~returned.raised
        /\ returned.tasks = Call(custom_handlers[resource_type], data_in)

C1_Witness ==
    /\ HandlerPath
    /\ resource_type \in DOMAIN mappings
    /\ custom_handlers[resource_type] = "custom_handler"
    /\ "prop1" \in DOMAIN data_in
    /\ Len(returned.tasks) = 1
    /\ returned.tasks[1].module = "custom.module"
    /\ returned.tasks[1].params["param1"] = data_in["prop1"]

\* the value-substitution table of chef_prop has a key equal to value up to
\* letter case
KeysUpToCase(e, chef_prop, value) ==
    {k \in DOMAIN get(e.value_mapping, chef_prop, NoMap) : lower(k) = lower(value)}

\* the parameter value the claims ask for: the substituted value when the
\* table has one for the input value, the raw input value otherwise
Expected(e, chef_prop, value) ==
    IF KeysUpToCase(e, chef_prop, value) # {}
    THEN e.value_mapping[chef_prop][CHOOSE k \in KeysUpToCase(e, chef_prop, value) : TRUE]
    ELSE value

\* C2: on the table path the call returns one task, of the entry's module,
\* whose parameters are exactly the target properties of the rename pairs with
\* a source property in the input, each bound to the substituted value when
\* the value-substitution table has one and to the raw value otherwise; the
\* built-in mysql_database entry maps {database_name: d, connection: h,
\* user: u, password: p} to {name: d, login_host: h, login_user: u,
\* login_password: p}.
C2_TablePathTask ==
    TablePath =>
        LET e == mappings[resource_type]
            t == returned.tasks
        IN  /\ ~returned.raised
            /\ Len(t) = 1
            /\ t[1].module = e.ansible_module
            /\ DOMAIN t[1].params = {pr[2] : pr \in PresentPairs(e, data_in)}
            /\ \A pr \in PresentPairs(e, data_in) :
                   t[1].params[pr[2]] = Expected(e, pr[1], data_in[pr[1]])

\* C2 for the tables whose value-substitution keys are written in lower case
C2_LowerCaseTables ==
    (TablePath /\ config_path # "override.json") => C2_TablePathTask

MysqlExample ==
    /\ TablePath
    /\ config_path = NoConfig
    /\ resource_type = "mysql_database"
    /\ data_in = ("database_name" :> S_d) @@ ("connection" :> S_h)
                 @@ ("user" :> S_u) @@ ("password" :> S_p)

C2_Mysql ==
    MysqlExample =>
        returned.tasks =
            << Task(ConvertedName("mysql_database"), "community.mysql.mysql_db",
                    ("name" :> S_d) @@ ("login_host" :> S_h)
                    @@ ("login_user" :> S_u) @@ ("login_password" :> S_p)) >>

\* C3: a call for a type with neither handler nor table entry returns, and
\* does not raise, exactly one placeholder task whose name and whose
\* ansible.builtin.debug message both embed the type name.
C3_Placeholder ==
    PlaceholderPath =>
        /\ ~returned.raised
        /\ Len(returned.tasks) = 1
        /\ resource_type \in Range(returned.tasks[1].name)
        /\ returned.tasks[1].module = "ansible.builtin.debug"
        /\ DOMAIN returned.tasks[1].params = {"msg"}
        /\ resource_type \in Range(returned.tasks[1].params["msg"])

C3_Witness ==
    /\ PlaceholderPath
    /\ resource_type = "totally_unknown_type"
    /\ data_in # NoMap
    /\ returned.tasks = << Placeholder("totally_unknown_type") >>

\* the overlay table the registry was constructed with, if it could be read
Overlay == IF config_path \in DOMAIN ConfigFiles THEN ConfigFiles[config_path] ELSE NoMap

\* C4: an overlay entry replaces the built-in entry of the same key as a
\* whole: the call uses the overlay's module and tables and applies no rename
\* pair that only the built-in entry has; built-in entries of other keys stay.
C4_OverlayReplaces ==
    /\ \A k \in DOMAIN Overlay : mappings[k] = Overlay[k]
    /\ \A k \in DOMAIN DefaultMappings \ DOMAIN Overlay : mappings[k] = DefaultMappings[k]
    /\ (TablePath /\ resource_type \in DOMAIN Overlay \cap DOMAIN DefaultMappings) =>
           LET e == Overlay[resource_type]
               b == DefaultMappings[resource_type]
               t == returned.tasks[1]
           IN  /\ t.module = e.ansible_module
               /\ DOMAIN t.params = {pr[2] : pr \in PresentPairs(e, data_in)}
               /\ \A pr \in PresentPairs(b, data_in) \ Pairs(e) :
                      pr[2] \notin {po[2] : po \in Pairs(e)} => pr[2] \notin DOMAIN t.params
               /\ \A po \in PresentPairs(e, data_in) :
                      t.params[po[2]] \in {data_in[po[1]]} \cup
                                          Range(get(e.value_mapping, po[1], NoMap))

C4_Witness ==
    /\ TablePath
    /\ config_path = "override.json"
    /\ resource_type = "mysql_database"
    /\ {"database_name", "connection", "user"} \subseteq DOMAIN data_in
    /\ returned.tasks[1].module = "mysql_db"
    /\ DOMAIN returned.tasks[1].params = {"db"}

\* C5: value substitution is case-insensitive, whatever the case of the input
\* value and of the key written in the table: when the value-substitution
\* table of a property has a key equal to the input value up to letter case,
\* the parameter is bound to the substituted value.
C5_CaseInsensitive ==
    TablePath =>
        LET e == mappings[resource_type]
        IN  \A pr \in PresentPairs(e, data_in) :
                \A k \in KeysUpToCase(e, pr[1], data_in[pr[1]]) :
                    returned.tasks[1].params[pr[2]] = e.value_mapping[pr[1]][k]

\* C6: on the table path and on the placeholder path the call leaves the
\* mapping table, the handler table and the caller's property set as they
\* were; the tables change only by construction and register_custom_handler.
C6_Frame ==
    /\ [][ /\ op' = "transform_resource" =>
                (mappings' = mappings /\ custom_handlers' = custom_handlers)
           /\ mappings' = mappings
           /\ custom_handlers' # custom_handlers => op' = "register_custom_handler"
         ]_vars
    /\ []((TablePath \/ PlaceholderPath) => resource_data = data_in)

C6_Witness ==
    /\ TablePath
    /\ resource_type = "mysql_database"
    /\ {"database_name", "encoding"} \subseteq DOMAIN data_in
    /\ resource_data = data_in
    /\ mappings = __init__(config_path)

(***************************************************************************)
(* SpecExtract: a recipe is written block by block, then parsed.           *)
(***************************************************************************)
\* a resource block as its author means it: the type word, the name (a
\* quoted literal, or an expression), and the property lines of the body
Block(type, name, literal, body) ==
    [type |-> type, name |-> name, literal |-> literal, body |-> body]

\* names, property names and property values of the blocks below
N_nginx == <<"n","g","i","n","x">>
N_d == <<"/","d">>
N_curl == <<"c","u","r","l">>
N_db == <<"d","b">>
N_node_p == <<"n","o","d","e","[","'","p","'","]">>
N_x == <<"/","x">>
P_action == <<"a","c","t","i","o","n">>
P_version == <<"v","e","r","s","i","o","n">>
P_mode == <<"m","o","d","e">>
P_owner == <<"o","w","n","e","r">>
V_install == <<":","i","n","s","t","a","l","l">>
V_create == <<":","c","r","e","a","t","e">>
V_1_18_0 == <<"'","1",".","1","8",".","0","'">>
V_enable_start == <<"[",":","e","n","a","b","l","e",","," ",":","s","t","a","r","t","]">>
V_0644 == <<"'","0","6","4","4","'">>
V_0600 == <<"'","0","6","0","0","'">>
V_root == <<"'","r","o","o","t","'">>

W_apt_package    == <<"a","p","t","_","p","a","c","k","a","g","e">>
W_mysql_database == <<"m","y","s","q","l","_","d","a","t","a","b","a","s","e">>

B_package_nginx ==
    Block(W_package, N_nginx, TRUE, << <<P_action, V_install>>, <<P_version, V_1_18_0>> >>)
B_service_nginx ==
    Block(W_service, N_nginx, TRUE, << <<P_action, V_enable_start>> >>)
B_directory_empty ==
    Block(W_directory, N_d, TRUE, << >>)
B_apt_package ==
    Block(W_apt_package, N_curl, TRUE, << <<P_action, V_install>> >>)
B_mysql_database ==
    Block(W_mysql_database, N_db, TRUE, << <<P_action, V_create>> >>)
B_package_computed ==
    Block(W_package, N_node_p, FALSE, << <<P_action, V_install>> >>)
B_file_repeated ==
    Block(W_file, N_x, TRUE,
          << <<P_mode, V_0644>>, <<P_owner, V_root>>, <<P_mode, V_0600>> >>)

Blocks == {B_package_nginx, B_service_nginx, B_directory_empty, B_apt_package,
           B_mysql_database, B_package_computed, B_file_repeated}

RECURSIVE RenderBody(_)
RenderBody(body) ==
    IF body = << >> THEN << >>
    ELSE <<" ", " ">> \o body[1][1] \o <<" ">> \o body[1][2] \o <<"\n">>
         \o RenderBody(Tail(body))

\* the text of a block:  <type> '<name>' do \n  <prop> <value> \n ... end \n
Render(b) ==
    b.type \o <<" ">>
    \o (IF b.literal THEN <<"'">> \o b.name \o <<"'">> ELSE b.name)
    \o <<" ">> \o W_do \o <<"\n">> \o RenderBody(b.body) \o W_end \o <<"\n">>

RECURSIVE RenderAll(_)
RenderAll(bs) == IF bs = << >> THEN << >> ELSE Render(bs[1]) \o RenderAll(Tail(bs))

\* the recipe's author adds a block to the file
WriteBlock(b) ==
    /\ ~extracted
    /\ Len(blocks) < MaxBlocks
    /\ blocks' = Append(blocks, b)
    /\ content' = content \o Render(b)
    /\ UNCHANGED <<resources, extracted, registryVars, lastCallVars, parVars, pipelineVars>>

\* 'resources': self._extract_resources(content)
ExtractResources ==
    /\ ~extracted
    /\ resources' = _extract_resources(content)
    /\ extracted' = TRUE
    /\ UNCHANGED <<blocks, content, registryVars, lastCallVars, parVars, pipelineVars>>

Write == \E b \in Blocks : WriteBlock(b)

NextExtract == Write \/ ExtractResources

SpecExtract == Init /\ [][NextExtract]_vars

(***************************************************************************)
(* Claims about the extractor, checked under SpecExtract.                  *)
(***************************************************************************)
Vocabulary == Range(resource_types)

PropNames(b) == {b.body[i][1] : i \in DOMAIN b.body}

\* a block of a vocabulary type with a literal name and no property repeated
WellFormed(b) ==
    /\ b.type \in Vocabulary
    /\ b.literal
    /\ Cardinality(PropNames(b)) = Len(b.body)

\* resources holds one record per block, in order, with the block's type,
\* name and property/value pairs
OneRecordPerBlock ==
    /\ Len(resources) = Len(blocks)
    /\ \A k \in DOMAIN blocks :
           /\ resources[k].type = blocks[k].type
           /\ resources[k].name = blocks[k].name
           /\ \A i \in DOMAIN blocks[k].body :
                  /\ blocks[k].body[i][1] \in DOMAIN resources[k].properties
                  /\ resources[k].properties[blocks[k].body[i][1]] = blocks[k].body[i][2]

\* C8: for a recipe text made of well-formed blocks of known types,
\* _extract_resources returns exactly one record per block, in the order of
\* the text, with the block's type, name and every property/value pair.
C8_OneRecordPerBlock ==
    (extracted /\ \A k \in DOMAIN blocks : WellFormed(blocks[k])) => OneRecordPerBlock

\* C8 for the blocks whose body is not empty
C8_NonEmptyBodies ==
    (extracted /\ \A k \in DOMAIN blocks :
                      WellFormed(blocks[k]) /\ blocks[k].body # << >>)
        => OneRecordPerBlock

\* the records made from block k (the blocks of the model differ in name)
RecordsOf(k) == {i \in DOMAIN resources : resources[i].name = blocks[k].name}

\* C9: a block whose type word is not a vocabulary keyword yields no record,
\* also when the type word ends with a vocabulary keyword (apt_package).
C9_UnknownTypeNotExtracted ==
    extracted =>
        \A k \in DOMAIN blocks :
            blocks[k].type \notin Vocabulary => RecordsOf(k) = {}

Without(bs, k) == [i \in 1..(Len(bs) - 1) |-> IF i < k THEN bs[i] ELSE bs[i + 1]]

\* C10: a block that is not turned into a record (unknown type, computed
\* name) is reflected in a skipped count the caller can read.  All the caller
\* gets is the returned list, so the list must at least differ from the one
\* returned for the same text without that block.
C10_SkipIsSignalled ==
    extracted =>
        \A k \in DOMAIN blocks :
            ((blocks[k].type \notin Vocabulary \/ ~blocks[k].literal) /\ RecordsOf(k) = {})
                => resources # _extract_resources(RenderAll(Without(blocks, k)))

\* the value the last line of the body naming property p gives it
LastValue(body, p) ==
    body[CHOOSE i \in DOMAIN body :
            /\ body[i][1] = p
            /\ \A j \in DOMAIN body : body[j][1] = p => j <= i][2]

\* C11: a record's property names are unique (properties is a mapping), and
\* when the text of a block repeats a property name the record made from the
\* block holds the value of the last occurrence.
C11_LastOccurrenceWins ==
    extracted =>
        \A k \in DOMAIN blocks :
            (blocks[k].type \in Vocabulary /\ blocks[k].literal /\ blocks[k].body # << >>)
                => \A i \in RecordsOf(k) :
                       resources[i].type = blocks[k].type
                           => /\ DOMAIN resources[i].properties = PropNames(blocks[k])
                              /\ \A p \in PropNames(blocks[k]) :
                                     resources[i].properties[p] = LastValue(blocks[k].body, p)

C11_Witness ==
    /\ extracted
    /\ \E k \in DOMAIN blocks :
           /\ blocks[k] = B_file_repeated
           /\ \E i \in RecordsOf(k) :
                  /\ resources[i].type = W_file
                  /\ resources[i].properties[P_mode] = V_0600
                  /\ resources[i].properties[P_owner] = V_root

(***************************************************************************)
(* SpecRecipes: ChefParser._parse_recipes over the files of a recipes      *)
(* directory.                                                              *)
(***************************************************************************)
\* a file of the directory: its stem and what open() and read() do with it
RecipeFile(name, state, text) == [name |-> name, state |-> state, text |-> text]

\* open(recipe_file, 'r') raises for a file that cannot be opened, f.read()
\* raises UnicodeDecodeError for bytes that are not valid in the encoding
FileStates == {"readable", "unreadable", "undecodable"}

FileTexts == {RenderAll(<<B_package_nginx>>), RenderAll(<<B_service_nginx>>)}

RecipeFiles ==
    { RecipeFile("default", st, t) : st \in FileStates, t \in FileTexts }

\* with open(recipe_file, 'r') as f: content = f.read()
ReadRaises(f) == f.state # "readable"

\* recipes.append({'name', 'path', 'content', 'resources'})
RecipeRecord(f) ==
    [name |-> f.name, content |-> f.text, resources |-> _extract_resources(f.text)]

otherThanRecipes ==
    <<registryVars, lastCallVars, parVars, parserVars, templateVars, postVars,
      responseVars, convertVars, cloneVars, loadVars, repositoryVars, validateVars,
      progressVars, pathsVars>>

\* a file is put into the recipes directory before the parse
AddRecipeFile(f) ==
    /\ parse_pc = "idle"
    /\ Len(recipe_files) < MaxFiles
    /\ recipe_files' = Append(recipe_files, f)
    /\ UNCHANGED <<recipes, next_file, parse_pc, otherThanRecipes>>

\* recipes = []; for recipe_file in recipes_dir.glob('*.rb'):
ParseRecipesCall ==
    /\ parse_pc = "idle"
    /\ recipes' = << >>
    /\ next_file' = 1
    /\ parse_pc' = "loop"
    /\ UNCHANGED <<recipe_files, otherThanRecipes>>

\* one iteration of the loop: an exception of open or read leaves the
\* function, and the local list with it
ParseRecipeFile ==
    /\ parse_pc = "loop"
    /\ next_file <= Len(recipe_files)
    /\ IF ReadRaises(recipe_files[next_file])
       THEN /\ parse_pc' = "raised"
            /\ recipes' = << >>
            /\ UNCHANGED next_file
       ELSE /\ recipes' = Append(recipes, RecipeRecord(recipe_files[next_file]))
            /\ next_file' = next_file + 1
            /\ UNCHANGED parse_pc
    /\ UNCHANGED <<recipe_files, otherThanRecipes>>

\* return recipes
ParseRecipesReturn ==
    /\ parse_pc = "loop"
    /\ next_file > Len(recipe_files)
    /\ parse_pc' = "returned"
    /\ UNCHANGED <<recipe_files, recipes, next_file, otherThanRecipes>>

AddFile == \E f \in RecipeFiles : AddRecipeFile(f)

NextRecipes == AddFile \/ ParseRecipesCall \/ ParseRecipeFile \/ ParseRecipesReturn

SpecRecipes == Init /\ [][NextRecipes]_vars

\* the content of a degraded record
None == <<"None">>

\* C12: when a recipe file cannot be read or decoded the parse of the
\* cookbook does not abort: the parse returns, with a record of nil content
\* for that file and a parsed record for every sibling file.
C12_UnreadableRecipeDegrades ==
    /\ parse_pc # "raised"
    /\ parse_pc = "returned" =>
           /\ Len(recipes) = Len(recipe_files)
           /\ \A i \in DOMAIN recipe_files :
                  IF ReadRaises(recipe_files[i])
                  THEN recipes[i].content = None
                  ELSE recipes[i] = RecipeRecord(recipe_files[i])

\* with every file readable the parse returns one parsed record per file
C12_ReadableRecipes ==
    (parse_pc # "idle" /\ \A i \in DOMAIN recipe_files : ~ReadRaises(recipe_files[i]))
        => /\ parse_pc # "raised"
           /\ parse_pc = "returned" =>
                  /\ Len(recipes) = Len(recipe_files)
                  /\ \A i \in DOMAIN recipe_files :
                         recipes[i] = RecipeRecord(recipe_files[i])

(***************************************************************************)
(* LLMConverter._convert_erb_to_jinja.  Template text is a sequence of     *)
(* characters; str.replace and re.sub are computed as Python computes      *)
(* them (matches taken left to right, not overlapping; \s* greedy, (.+?)   *)
(* lazy and not crossing a line end).                                      *)
(***************************************************************************)
E_close == <<"%", ">">>

Hit(stop, out) == [ok |-> TRUE, stop |-> stop, out |-> out]

NoNewline(text, a, b) == \A k \in a..b : text[k] # "\n"

Last(S) == CHOOSE i \in S : \A k \in S : k <= i

\* text.replace(old, new, count): the first count occurrences, all of them
\* when count is negative
RECURSIVE ReplaceFrom(_, _, _, _, _)
ReplaceFrom(text, pos, old, new, count) ==
    LET i == IF count = 0 THEN 0
             ELSE First({k \in pos..Len(text) : StartsWith(text, k, old)})
    IN  IF i = 0 THEN Sub(text, pos, Len(text))
        ELSE Sub(text, pos, i - 1) \o new
             \o ReplaceFrom(text, i + Len(old), old, new, count - 1)

replace(text, old, new) == ReplaceFrom(text, 1, old, new, -1)

\* text.count(sub)
RECURSIVE CountFrom(_, _, _)
CountFrom(text, pos, sub) ==
    LET i == First({k \in pos..Len(text) : StartsWith(text, k, sub)})
    IN  IF i = 0 THEN 0 ELSE 1 + CountFrom(text, i + Len(sub), sub)

count(text, sub) == CountFrom(text, 1, sub)

\* \s*(.+?)\s*%> from a on.  The group starts after the white space and
\* ends at the first place from where \s*%> matches; when %> follows the
\* white space directly, the white space gives the group its last character
\* that is not a line end, and none before lo.
LazyToClose(text, a, lo) ==
    LET q    == SkipSpaces(text, a)
        e    == First({k \in (q + 1)..(Len(text) + 1) :
                          /\ NoNewline(text, q, k - 1)
                          /\ StartsWith(text, SkipSpaces(text, k), E_close)})
        back == {k \in lo..(q - 1) : text[k] # "\n"}
    IN  IF e # 0
        THEN [ok |-> TRUE, group |-> Sub(text, q, e - 1), stop |-> SkipSpaces(text, e) + 2]
        ELSE IF StartsWith(text, q, E_close) /\ back # {}
        THEN [ok |-> TRUE, group |-> <<text[Last(back)]>>, stop |-> q + 2]
        ELSE NoMatch

\* <%=\s*(.+?)\s*%>  ->  {{ \1 }}
OutputTagAt(text, i) ==
    LET m == LazyToClose(text, i + 3, i + 3)
    IN  IF StartsWith(text, i, <<"<", "%", "=">>) /\ m.ok
        THEN Hit(m.stop, <<"{", "{", " ">> \o m.group \o <<" ", "}", "}">>)
        ELSE NoMatch

\* <%\s*kw\s+(.+?)\s*%>  ->  {% to \1 %}     (kw: if, elsif)
ConditionTagAt(text, i, kw, to) ==
    LET p == SkipSpaces(text, i + 2)
        a == p + Len(kw)
        m == LazyToClose(text, a, a + 1)
    IN  IF /\ StartsWith(text, i, <<"<", "%">>)
           /\ StartsWith(text, p, kw)
           /\ SkipSpaces(text, a) > a
           /\ m.ok
        THEN Hit(m.stop, <<"{", "%", " ">> \o to \o <<" ">> \o m.group \o <<" ", "%", "}">>)
        ELSE NoMatch

\* <%\s*kw\s*%>  ->  out     (kw: else, end)
KeywordTagAt(text, i, kw, out) ==
    LET p == SkipSpaces(text, i + 2)
        r == SkipSpaces(text, p + Len(kw))
    IN  IF /\ StartsWith(text, i, <<"<", "%">>)
           /\ StartsWith(text, p, kw)
           /\ StartsWith(text, r, E_close)
        THEN Hit(r + 2, out)
        ELSE NoMatch

\* \.each\s+do\s*\|\s*(.+?)\s*\|\s*%> tried at position e
EachRest(text, e) ==
    LET b    == e + 5
        c    == SkipSpaces(text, b)
        d    == SkipSpaces(text, c + 2)
        q    == SkipSpaces(text, d + 1)
        Closes(k) == /\ StartsWith(text, SkipSpaces(text, k), <<"|">>)
                   /\ StartsWith(text, SkipSpaces(text, SkipSpaces(text, k) + 1), E_close)
        Stop(k) == SkipSpaces(text, SkipSpaces(text, k) + 1) + 2
        e2   == First({k \in (q + 1)..(Len(text) + 1) : NoNewline(text, q, k - 1) /\ Closes(k)})
        back == {k \in (d + 1)..(q - 1) : text[k] # "\n"}
    IN  IF ~(/\ StartsWith(text, e, <<".", "e", "a", "c", "h">>)
             /\ c > b
             /\ StartsWith(text, c, <<"d", "o">>)
             /\ StartsWith(text, d, <<"|">>))
        THEN NoMatch
        ELSE IF e2 # 0
        THEN [ok |-> TRUE, group |-> Sub(text, q, e2 - 1), stop |-> Stop(e2)]
        ELSE IF Closes(q) /\ back # {}
        THEN [ok |-> TRUE, group |-> <<text[Last(back)]>>, stop |-> Stop(q)]
        ELSE NoMatch

\* <%\s*(.+?)\.each\s+do\s*\|\s*(.+?)\s*\|\s*%>  ->  {% for \2 in \1 %}
EachTagAt(text, i) ==
    LET q  == SkipSpaces(text, i + 2)
        e1 == First({k \in (q + 1)..Len(text) :
                        NoNewline(text, q, k - 1) /\ EachRest(text, k).ok})
    IN  IF ~StartsWith(text, i, <<"<", "%">>) THEN NoMatch
        ELSE IF e1 # 0
        THEN Hit(EachRest(text, e1).stop,
                 <<"{", "%", " ", "f", "o", "r", " ">> \o EachRest(text, e1).group \o <<" ", "i", "n", " ">> \o Sub(text, q, e1 - 1) \o <<" ", "%", "}">>)
        ELSE IF q - 1 >= i + 2 /\ text[q - 1] # "\n" /\ EachRest(text, q).ok
        THEN Hit(EachRest(text, q).stop,
                 <<"{", "%", " ", "f", "o", "r", " ">> \o EachRest(text, q).group \o <<" ", "i", "n", " ">> \o <<text[q - 1]>> \o <<" ", "%", "}">>)
        ELSE NoMatch

\* <%\s*(.+?)\s*%>  ->  {% \1 %}
GenericTagAt(text, i) ==
    LET m == LazyToClose(text, i + 2, i + 2)
    IN  IF StartsWith(text, i, <<"<", "%">>) /\ m.ok
        THEN Hit(m.stop, <<"{", "%", " ">> \o m.group \o <<" ", "%", "}">>)
        ELSE NoMatch

\* {%\s*for\s+
ForAt(text, i) ==
    LET p == SkipSpaces(text, i + 2)
    IN  IF /\ StartsWith(text, i, <<"{", "%">>)
           /\ StartsWith(text, p, <<"f", "o", "r">>)
           /\ SkipSpaces(text, p + 3) > p + 3
        THEN Hit(SkipSpaces(text, p + 3), << >>)
        ELSE NoMatch

\* open ([^c]+) close at position p, c the first character of close
Bracket(text, p, open, close) ==
    LET n == First({k \in (p + Len(open))..Len(text) : text[k] = close[1]})
    IN  IF /\ StartsWith(text, p, open)
           /\ n > p + Len(open)
           /\ StartsWith(text, n, close)
        THEN [ok |-> TRUE, group |-> Sub(text, p + Len(open), n - 1), stop |-> n + Len(close)]
        ELSE NoMatch

\* node followed by depth bracket lookups  ->  the keys joined by _
RECURSIVE Lookups(_, _, _, _, _)
Lookups(text, p, open, close, depth) ==
    LET m    == Bracket(text, p, open, close)
        rest == Lookups(text, m.stop, open, close, depth - 1)
    IN  IF depth = 0 THEN Hit(p, << >>)
        ELSE IF ~m.ok THEN NoMatch
        ELSE IF ~rest.ok THEN NoMatch
        ELSE Hit(rest.stop, IF depth = 1 THEN m.group ELSE m.group \o <<"_">> \o rest.out)

NodeAt(text, i, open, close, depth) ==
    IF StartsWith(text, i, <<"n", "o", "d", "e">>) THEN Lookups(text, i + 4, open, close, depth) ELSE NoMatch

\* [a-zA-Z0-9_]
IsAttrChar(c) == IsWord(c)

\* node\.([a-zA-Z0-9_]+)  ->  \1
NodeDotAt(text, i) ==
    LET w == First({k \in (i + 5)..(Len(text) + 1) : k > Len(text) \/ ~IsAttrChar(text[k])})
    IN  IF StartsWith(text, i, <<"n", "o", "d", "e", ".">>) /\ w > i + 5
        THEN Hit(w, Sub(text, i + 5, w - 1))
        ELSE NoMatch

\* File\.exist\?\(['"](.*?)['"]\)  ->  '\1' is defined
FileExistAt(text, i) ==
    LET a == i + 12
        e == First({k \in (a + 1)..(Len(text) - 1) :
                       /\ NoNewline(text, a + 1, k - 1)
                       /\ text[k] \in Quotes
                       /\ text[k + 1] = ")"})
    IN  IF /\ StartsWith(text, i, <<"F", "i", "l", "e", ".", "e", "x", "i", "s", "t", "?", "(">>)
           /\ a <= Len(text)
           /\ text[a] \in Quotes
           /\ e # 0
        THEN Hit(e + 2, <<"'">> \o Sub(text, a + 1, e - 1) \o <<"'", " ", "i", "s", " ", "d", "e", "f", "i", "n", "e", "d">>)
        ELSE NoMatch

\* "([^"]*?)#\{(.+?)\}([^"]*?)"  ->  "\1{{ \2 }}\3"
InterpolationAt(text, i) ==
    LET Quote(s) == First({c \in s..Len(text) : text[c] = "\""})
        Brace(p) == First({k \in (p + 1)..Len(text) :
                              /\ NoNewline(text, p, k - 1)
                              /\ text[k] = "}"
                              /\ Quote(k + 1) # 0})
        h == First({k \in (i + 1)..Len(text) :
                       /\ \A j \in (i + 1)..(k - 1) : text[j] # "\""
                       /\ StartsWith(text, k, <<"#", "{">>)
                       /\ Brace(k + 2) # 0})
    IN  IF i <= Len(text) /\ text[i] = "\"" /\ h # 0
        THEN Hit(Quote(Brace(h + 2) + 1) + 1,
                 <<"\"">> \o Sub(text, i + 1, h - 1) \o <<"{", "{", " ">>
                 \o Sub(text, h + 2, Brace(h + 2) - 1) \o <<" ", "}", "}">>
                 \o Sub(text, Brace(h + 2) + 1, Quote(Brace(h + 2) + 1) - 1) \o <<"\"">>)
        ELSE NoMatch

\* the patterns of _convert_erb_to_jinja, tried at position i
MatchPattern(pat, text, i) ==
    CASE pat = "output"  -> OutputTagAt(text, i)
      [] pat = "if"      -> ConditionTagAt(text, i, <<"i", "f">>, <<"i", "f">>)
      [] pat = "elsif"   -> ConditionTagAt(text, i, <<"e", "l", "s", "i", "f">>, <<"e", "l", "i", "f">>)
      [] pat = "else"    -> KeywordTagAt(text, i, <<"e", "l", "s", "e">>, <<"{", "%", " ", "e", "l", "s", "e", " ", "%", "}">>)
      [] pat = "each"    -> EachTagAt(text, i)
      [] pat = "end"     -> KeywordTagAt(text, i, <<"e", "n", "d">>, <<"{", "%", " ", "e", "n", "d", "f", "o", "r", " ", "%", "}">>)
      [] pat = "generic" -> GenericTagAt(text, i)
      [] pat = "for"     -> ForAt(text, i)
      [] pat = "node3"   -> NodeAt(text, i, <<"[", "'">>, <<"'", "]">>, 3)
      [] pat = "node2"   -> NodeAt(text, i, <<"[", "'">>, <<"'", "]">>, 2)
      [] pat = "node1"   -> NodeAt(text, i, <<"[", "'">>, <<"'", "]">>, 1)
      [] pat = "sym3"    -> NodeAt(text, i, <<"[", ":">>, <<"]">>, 3)
      [] pat = "sym2"    -> NodeAt(text, i, <<"[", ":">>, <<"]">>, 2)
      [] pat = "sym1"    -> NodeAt(text, i, <<"[", ":">>, <<"]">>, 1)
      [] pat = "dot"     -> NodeDotAt(text, i)
      [] pat = "file"    -> FileExistAt(text, i)
      [] pat = "interpolation" -> InterpolationAt(text, i)

\* re.sub(pattern, replacement, text)
RECURSIVE SubFrom(_, _, _)
SubFrom(pat, text, pos) ==
    LET i == First({k \in pos..Len(text) : MatchPattern(pat, text, k).ok})
    IN  IF i = 0 THEN Sub(text, pos, Len(text))
        ELSE Sub(text, pos, i - 1) \o MatchPattern(pat, text, i).out
             \o SubFrom(pat, text, MatchPattern(pat, text, i).stop)

re_sub(pat, text) == SubFrom(pat, text, 1)

\* len(re.findall(pattern, text))
RECURSIVE FindallFrom(_, _, _)
FindallFrom(pat, text, pos) ==
    LET i == First({k \in pos..Len(text) : MatchPattern(pat, text, k).ok})
    IN  IF i = 0 THEN 0 ELSE 1 + FindallFrom(pat, text, MatchPattern(pat, text, i).stop)

\* the number of {% endfor %} that are turned into {% endif %}
ExcessEndfor(text) == count(text, <<"{", "%", " ", "e", "n", "d", "f", "o", "r", " ", "%", "}">>) - FindallFrom("for", text, 1)

\* if endfor_count > for_count: replace the first endfor_count - for_count
ReconcileEnds(text) ==
    IF ExcessEndfor(text) > 0
    THEN ReplaceFrom(text, 1, <<"{", "%", " ", "e", "n", "d", "f", "o", "r", " ", "%", "}">>, <<"{", "%", " ", "e", "n", "d", "i", "f", " ", "%", "}">>, ExcessEndfor(text))
    ELSE text

\* the statements of _convert_erb_to_jinja that rewrite jinja_content, in
\* the order of the code
ConversionSteps ==
    <<"escape_open", "escape_close", "output", "if", "elsif", "else", "each", "end",
      "reconcile", "generic", "node3", "node2", "node1", "sym3", "sym2", "sym1", "dot",
      "hostname", "ipaddress", "platform", "platform_version", "file", "interpolation",
      "reserved_name", "reserved_if">>

\* one statement: jinja_content = jinja_content.replace(...) or re.sub(...)
Step(name, text) ==
    CASE name = "escape_open"      -> replace(text, <<"{", "{">>, <<"\\", "{", "\\", "{">>)
      [] name = "escape_close"     -> replace(text, <<"}", "}">>, <<"\\", "}", "\\", "}">>)
      [] name = "reconcile"        -> ReconcileEnds(text)
      [] name = "hostname"         -> replace(text, <<"h", "o", "s", "t", "n", "a", "m", "e">>, <<"a", "n", "s", "i", "b", "l", "e", "_", "h", "o", "s", "t", "n", "a", "m", "e">>)
      [] name = "ipaddress"        -> replace(text, <<"i", "p", "a", "d", "d", "r", "e", "s", "s">>, <<"a", "n", "s", "i", "b", "l", "e", "_", "d", "e", "f", "a", "u", "l", "t", "_", "i", "p", "v", "4", ".", "a", "d", "d", "r", "e", "s", "s">>)
      [] name = "platform"         -> replace(text, <<"p", "l", "a", "t", "f", "o", "r", "m">>, <<"a", "n", "s", "i", "b", "l", "e", "_", "d", "i", "s", "t", "r", "i", "b", "u", "t", "i", "o", "n">>)
      [] name = "platform_version" ->
             replace(text, <<"p", "l", "a", "t", "f", "o", "r", "m", "_", "v", "e", "r", "s", "i", "o", "n">>, <<"a", "n", "s", "i", "b", "l", "e", "_", "d", "i", "s", "t", "r", "i", "b", "u", "t", "i", "o", "n", "_", "v", "e", "r", "s", "i", "o", "n">>)
      [] name = "reserved_name"    -> replace(text, <<"{", "{", " ", "n", "a", "m", "e", " ", "}", "}">>, <<"{", "{", " ", "h", "o", "s", "t", "n", "a", "m", "e", " ", "}", "}">>)
      [] name = "reserved_if"      -> replace(text, <<"{", "%", " ", "i", "f", " ", "n", "a", "m", "e">>, <<"{", "%", " ", "i", "f", " ", "h", "o", "s", "t", "n", "a", "m", "e">>)
      [] OTHER                     -> re_sub(name, text)

\* the statements one after the other, each on the result of the one before
\* (no statement changes an empty text)
RECURSIVE Statements(_, _)
Statements(steps, text) ==
    IF text = << >> \/ steps = << >> THEN text
    ELSE Statements(Tail(steps), Step(steps[1], text))

\* if not erb_content: return ""
_convert_erb_to_jinja(erb_content) == Statements(ConversionSteps, erb_content)

(***************************************************************************)
(* SpecTemplate: a template is written piece by piece and transpiled, and  *)
(* the result is transpiled once more.                                     *)
(***************************************************************************)
T_text   == <<"s", "e", "r", "v", "e", "r", " ">>
T_output == <<"<", "%", "=", " ", "p", "o", "r", "t", " ", "%", ">">>
T_attr   == <<"<", "%", "=", " ", "n", "o", "d", "e", "[", "'", "n", "g", "i", "n", "x", "'", "]", "[", "'", "p", "o", "r", "t", "'", "]", " ", "%", ">">>
T_if     == <<"<", "%", " ", "i", "f", " ", "s", "s", "l", " ", "%", ">">>
T_each   == <<"<", "%", " ", "s", "i", "t", "e", "s", ".", "e", "a", "c", "h", " ", "d", "o", " ", "|", "s", "i", "t", "e", "|", " ", "%", ">">>
T_end    == <<"<", "%", " ", "e", "n", "d", " ", "%", ">">>

TemplateTags == {T_text, T_output, T_attr, T_if, T_each, T_end}

otherThanTemplate ==
    <<registryVars, lastCallVars, parVars, parserVars, recipeVars, postVars,
      responseVars, convertVars, cloneVars, loadVars, repositoryVars, validateVars,
      progressVars, pathsVars>>

\* the template's author adds a piece to the text
WriteTag(t) ==
    /\ passes = 0
    /\ Len(template_tags) < MaxTags
    /\ template_tags' = Append(template_tags, t)
    /\ template_content' = template_content \o t
    /\ UNCHANGED <<jinja_content, jinja_again, passes, otherThanTemplate>>

\* converted_content = self._convert_erb_to_jinja(template['content'])
Transpile ==
    /\ passes = 0
    /\ jinja_content' = _convert_erb_to_jinja(template_content)
    /\ passes' = 1
    /\ UNCHANGED <<template_tags, template_content, jinja_again, otherThanTemplate>>

\* the converted text is given to _convert_erb_to_jinja once more
TranspileAgain ==
    /\ passes = 1
    /\ jinja_again' = _convert_erb_to_jinja(jinja_content)
    /\ passes' = 2
    /\ UNCHANGED <<template_tags, template_content, jinja_content, otherThanTemplate>>

Write_ == \E t \in TemplateTags : WriteTag(t)

NextTemplate == Write_ \/ Transpile \/ TranspileAgain

SpecTemplate == Init /\ [][NextTemplate]_vars

\* how many pieces of the template are the tag t
Occurrences(t) == Cardinality({i \in DOMAIN template_tags : template_tags[i] = t})

ControlFlowTags == {T_if, T_each, T_end}

\* C13: for a template with no control-flow tags a second pass of
\* _convert_erb_to_jinja returns what the first pass returned.
C13_SecondPassSame ==
    (passes = 2 /\ \A i \in DOMAIN template_tags : template_tags[i] \notin ControlFlowTags)
        => jinja_again = jinja_content

\* C13 for a template of plain text only
C13_PlainText ==
    (passes = 2 /\ \A i \in DOMAIN template_tags : template_tags[i] = T_text)
        => jinja_again = jinja_content

\* C14: a template with K loop-open tags and K+M block-close tags is
\* transpiled to a text with exactly K {% endfor %} and exactly M {% endif %}.
C14_EndTags ==
    (passes >= 1 /\ Occurrences(T_end) >= Occurrences(T_each))
        => /\ count(jinja_content, <<"{", "%", " ", "e", "n", "d", "f", "o", "r", " ", "%", "}">>) = Occurrences(T_each)
           /\ count(jinja_content, <<"{", "%", " ", "e", "n", "d", "i", "f", " ", "%", "}">>) = Occurrences(T_end) - Occurrences(T_each)

\* C14 for templates in which no block-close tag stands before a loop-open
\* tag on the same line
C14_EndTagsApart ==
    (/\ passes >= 1
     /\ Occurrences(T_end) >= Occurrences(T_each)
     /\ \A i, j \in DOMAIN template_tags :
            i < j => ~(template_tags[i] = T_end /\ template_tags[j] = T_each))
        => /\ count(jinja_content, <<"{", "%", " ", "e", "n", "d", "f", "o", "r", " ", "%", "}">>) = Occurrences(T_each)
           /\ count(jinja_content, <<"{", "%", " ", "e", "n", "d", "i", "f", " ", "%", "}">>) = Occurrences(T_end) - Occurrences(T_each)

C14_Witness ==
    /\ passes = 1
    /\ template_tags = <<T_if, T_each, T_end, T_end>>
    /\ count(jinja_content, <<"{", "%", " ", "e", "n", "d", "f", "o", "r", " ", "%", "}">>) = 1
    /\ count(jinja_content, <<"{", "%", " ", "e", "n", "d", "i", "f", " ", "%", "}">>) = 1

(***************************************************************************)
(* LLMConverter._post_process_custom_resources.  A task is a record with   *)
(* the fields name, module, params and, when the task has a vars key,      *)
(* vars; a task name is the sequence of the pieces its f-string was made   *)
(* of, and the patterns are searched in the characters of the pieces.      *)
(***************************************************************************)
\* the spelling of the strings names and messages are made of
Chars(s) ==
    CASE s = "TODO: Convert Chef custom resource '" -> <<"T", "O", "D", "O", ":", " ", "C", "o", "n", "v", "e", "r", "t", " ", "C", "h", "e", "f", " ", "c", "u", "s", "t", "o", "m", " ", "r", "e", "s", "o", "u", "r", "c", "e", " ", "'">>
      [] s = "Converted from Chef custom resource '" -> <<"C", "o", "n", "v", "e", "r", "t", "e", "d", " ", "f", "r", "o", "m", " ", "C", "h", "e", "f", " ", "c", "u", "s", "t", "o", "m", " ", "r", "e", "s", "o", "u", "r", "c", "e", " ", "'">>
      [] s = "Chef custom resource '" -> <<"C", "h", "e", "f", " ", "c", "u", "s", "t", "o", "m", " ", "r", "e", "s", "o", "u", "r", "c", "e", " ", "'">>
      [] s = "' requires manual conversion" -> <<"'", " ", "r", "e", "q", "u", "i", "r", "e", "s", " ", "m", "a", "n", "u", "a", "l", " ", "c", "o", "n", "v", "e", "r", "s", "i", "o", "n">>
      [] s = "'" -> <<"'">>
      [] s = "' (mapping failed: " -> <<"'", " ", "(", "m", "a", "p", "p", "i", "n", "g", " ", "f", "a", "i", "l", "e", "d", ":", " ">>
      [] s = "error" -> <<"e", "r", "r", "o", "r">>
      [] s = ")" -> <<")">>
      [] s = "Custom handled resource" -> <<"C", "u", "s", "t", "o", "m", " ", "h", "a", "n", "d", "l", "e", "d", " ", "r", "e", "s", "o", "u", "r", "c", "e">>
      [] s = "Install package" -> <<"I", "n", "s", "t", "a", "l", "l", " ", "p", "a", "c", "k", "a", "g", "e">>
      [] s = "mysql_database" -> <<"m", "y", "s", "q", "l", "_", "d", "a", "t", "a", "b", "a", "s", "e">>
      [] s = "apache2_site" -> <<"a", "p", "a", "c", "h", "e", "2", "_", "s", "i", "t", "e">>
      [] s = "apache2_module" -> <<"a", "p", "a", "c", "h", "e", "2", "_", "m", "o", "d", "u", "l", "e">>
      [] s = "totally_unknown_type" -> <<"t", "o", "t", "a", "l", "l", "y", "_", "u", "n", "k", "n", "o", "w", "n", "_", "t", "y", "p", "e">>
      [] s = "custom_resource" -> <<"c", "u", "s", "t", "o", "m", "_", "r", "e", "s", "o", "u", "r", "c", "e">>
      [] OTHER -> <<s>>   \* a piece of one character

RECURSIVE Text(_)
Text(pieces) == IF pieces = << >> THEN << >> ELSE Chars(pieces[1]) \o Text(Tail(pieces))

\* the resource type a run of characters spells
TypeName(chars) == CHOOSE t \in CallTypes : Chars(t) = chars

\* patterns = [...]: what stands before and after the group '([^']+)'
patterns ==
    << <<<<"T", "O", "D", "O", ":", " ", "C", "o", "n", "v", "e", "r", "t", " ", "C", "h", "e", "f", " ", "c", "u", "s", "t", "o", "m", " ", "r", "e", "s", "o", "u", "r", "c", "e", " ", "'">>, <<"'">>>>,
       <<<<"C", "h", "e", "f", " ", "c", "u", "s", "t", "o", "m", " ", "r", "e", "s", "o", "u", "r", "c", "e", " ", "'">>, <<"'", " ", "r", "e", "q", "u", "i", "r", "e", "s", " ", "m", "a", "n", "u", "a", "l", " ", "c", "o", "n", "v", "e", "r", "s", "i", "o", "n">>>>,
       <<<<"C", "o", "n", "v", "e", "r", "t", "e", "d", " ", "f", "r", "o", "m", " ", "C", "h", "e", "f", " ", "c", "u", "s", "t", "o", "m", " ", "r", "e", "s", "o", "u", "r", "c", "e", " ", "'">>, <<"'">>>>,
       <<<<"U", "n", "a", "b", "l", "e", " ", "t", "o", " ", "c", "o", "n", "v", "e", "r", "t", " ", "C", "h", "e", "f", " ", "r", "e", "s", "o", "u", "r", "c", "e", " ", "'">>, <<"'">>>> >>

\* the pattern tried at position k
PatternAt(text, k, pattern) ==
    LET a == k + Len(pattern[1])
        n == First({j \in a..Len(text) : text[j] = "'"})
    IN  IF StartsWith(text, k, pattern[1]) /\ n > a /\ StartsWith(text, n, pattern[2])
        THEN [ok |-> TRUE, group |-> Sub(text, a, n - 1)]
        ELSE NoMatch

\* re.search(pattern, text): group 1 of the leftmost match, << >> for no match
search(pattern, text) ==
    LET i == First({k \in 1..Len(text) : PatternAt(text, k, pattern).ok})
    IN  IF i = 0 THEN << >> ELSE PatternAt(text, i, pattern).group

\* sub in text
Contains(text, sub) == \E k \in 1..Len(text) : StartsWith(text, k, sub)

\* 'ansible.builtin.debug' in task and 'msg' in task['ansible.builtin.debug']
HasDebugMsg(task) ==
    /\ "module" \in DOMAIN task
    /\ task.module = "ansible.builtin.debug"
    /\ "msg" \in DOMAIN task.params

\* task.get('name', '')
NameOf(task) == IF "name" \in DOMAIN task THEN Text(task.name) ELSE << >>

\* a parsed YAML scalar where a task mapping is expected
Scalar(chars) == [scalar |-> chars]

IsMapping(task) == "scalar" \notin DOMAIN task

_is_custom_resource_placeholder(task) ==
    \/ \E p \in DOMAIN patterns : search(patterns[p], NameOf(task)) # << >>
    \/ /\ HasDebugMsg(task)
       /\ \/ Contains(lower(Text(task.params.msg)), <<"c", "u", "s", "t", "o", "m", " ", "r", "e", "s", "o", "u", "r", "c", "e">>)
          \/ Contains(lower(Text(task.params.msg)), <<"r", "e", "q", "u", "i", "r", "e", "s", " ", "m", "a", "n", "u", "a", "l", " ", "c", "o", "n", "v", "e", "r", "s", "i", "o", "n">>)

\* group 1 of the first of the patterns that matches text, << >> if none does
FirstGroup(text) ==
    LET found == {p \in DOMAIN patterns : search(patterns[p], text) # << >>}
    IN  IF found = {} THEN << >> ELSE search(patterns[First(found)], text)

_extract_resource_type(task) ==
    IF FirstGroup(NameOf(task)) # << >>
    THEN TypeName(FirstGroup(NameOf(task)))
    ELSE IF HasDebugMsg(task) /\ FirstGroup(Text(task.params.msg)) # << >>
    THEN TypeName(FirstGroup(Text(task.params.msg)))
    ELSE "custom_resource"

\* resource_data.update(task['vars']), then every key other than name,
\* ansible.builtin.debug and vars
_extract_resource_data(task) ==
    (IF "module" \in DOMAIN task /\ task.module # "ansible.builtin.debug"
     THEN (task.module :> task.params) ELSE NoMap)
    @@ (IF "vars" \in DOMAIN task THEN task.vars ELSE NoMap)

\* the task returned when transform_resource raises
MappingFailed(rt) ==
    Task(<<"TODO: Convert Chef custom resource '", rt, "' (mapping failed: ", "error", ")">>,
         "ansible.builtin.debug",
         ("msg" :> <<"Chef custom resource '", rt, "' requires manual conversion">>))

_handle_custom_resource(mp, ch, rt, rd) ==
    IF transform_resource(mp, ch, rt, rd).raised
    THEN <<MappingFailed(rt)>>
    ELSE transform_resource(mp, ch, rt, rd).tasks

\* a placeholder is dropped when nothing comes back for it
ExtendOrDrop(task, custom_tasks) == custom_tasks

\* if custom_tasks: processed_tasks.extend(custom_tasks)
\* else: processed_tasks.append(task)
ExtendOrKeep(task, custom_tasks) ==
    IF custom_tasks # << >> THEN custom_tasks ELSE <<task>>

\* the loop over result['tasks'] from task i on; task.get raises for a task
\* that is no mapping
RECURSIVE ProcessTasks(_, _, _, _, _)
ProcessTasks(mp, ch, tasks, i, processed_tasks) ==
    IF i > Len(tasks) THEN [raised |-> FALSE, tasks |-> processed_tasks]
    ELSE IF ~IsMapping(tasks[i]) THEN [raised |-> TRUE, tasks |-> << >>]
    ELSE IF _is_custom_resource_placeholder(tasks[i])
    THEN ProcessTasks(mp, ch, tasks, i + 1,
             processed_tasks \o
             ExtendOrKeep(tasks[i],
                 _handle_custom_resource(mp, ch, _extract_resource_type(tasks[i]),
                                         _extract_resource_data(tasks[i]))))
    ELSE ProcessTasks(mp, ch, tasks, i + 1, Append(processed_tasks, tasks[i]))

\* result['tasks'] after _post_process_custom_resources, or raised
_post_process_custom_resources(mp, ch, tasks) == ProcessTasks(mp, ch, tasks, 1, << >>)

(***************************************************************************)
(* SpecPost: a task list is put together, post-processed on a registry,    *)
(* and the result is post-processed once more.                             *)
(***************************************************************************)
\* the tasks of tests/test_custom_resource_handling.py and placeholders of
\* the other kinds of type
RegularTask ==
    Task(<<"Install package">>, "ansible.builtin.package",
         ("name" :> <<"n", "g", "i", "n", "x">>) @@ ("state" :> S_present))

WithVars(task, task_vars) ==
    [name |-> task.name, module |-> task.module, params |-> task.params,
     vars |-> task_vars]

MysqlPlaceholder ==
    WithVars(Placeholder("mysql_database"),
             ("database_name" :> S_d) @@ ("connection" :> S_h)
             @@ ("user" :> S_u) @@ ("password" :> S_p))

CustomPlaceholder == WithVars(Placeholder("custom_resource"), ("prop1" :> S_value1))

UnknownPlaceholder == Placeholder("totally_unknown_type")

InputTasks == {RegularTask, MysqlPlaceholder, CustomPlaceholder, UnknownPlaceholder}

otherThanPost ==
    <<lastCallVars, parVars, parserVars, recipeVars, templateVars, responseVars,
      convertVars, cloneVars, loadVars, repositoryVars, validateVars, progressVars,
      pathsVars>>

\* a task is added to result['tasks'] before the post-processing
AddTask(t) ==
    /\ post_passes = 0
    /\ Len(result_tasks) < MaxTasks
    /\ result_tasks' = Append(result_tasks, t)
    /\ UNCHANGED <<processed, processed_again, post_passes, registryVars, otherThanPost>>

\* a handler is registered before any task is there
PostRegister ==
    /\ post_passes = 0
    /\ result_tasks = << >>
    /\ \E rt \in HandlerTypes, h \in Handlers :
           /\ Cardinality(DOMAIN custom_handlers \cup {rt}) <= MaxHandlers
           /\ custom_handlers' = (rt :> h) @@ custom_handlers
    /\ UNCHANGED <<config_path, mappings, postVars, otherThanPost>>

\* processed_result = converter._post_process_custom_resources(result)
PostProcess ==
    /\ post_passes = 0
    /\ processed' = _post_process_custom_resources(mappings, custom_handlers, result_tasks)
    /\ post_passes' = 1
    /\ UNCHANGED <<result_tasks, processed_again, registryVars, otherThanPost>>

\* the processed result is given to _post_process_custom_resources once more
PostProcessAgain ==
    /\ post_passes = 1
    /\ ~processed.raised
    /\ processed_again' =
           _post_process_custom_resources(mappings, custom_handlers, processed.tasks)
    /\ post_passes' = 2
    /\ UNCHANGED <<result_tasks, processed, registryVars, otherThanPost>>

Add == \E t \in InputTasks : AddTask(t)

NextPost == Add \/ PostRegister \/ PostProcess \/ PostProcessAgain

SpecPost == Init /\ [][NextPost]_vars

\* what stands at the place of a task after the post-processing
Replacement(task) ==
    LET returned_tasks ==
            transform_resource(mappings, custom_handlers,
                               _extract_resource_type(task),
                               _extract_resource_data(task)).tasks
    IN  IF ~_is_custom_resource_placeholder(task) THEN <<task>>
        ELSE IF returned_tasks = << >> THEN <<task>>
        ELSE returned_tasks

RECURSIVE Concat(_)
Concat(seqs) == IF seqs = << >> THEN << >> ELSE seqs[1] \o Concat(Tail(seqs))

\* C19: _post_process_custom_resources keeps every task that is no
\* placeholder, in order, and puts at the place of each placeholder the tasks
\* transform_resource returns for the type and data extracted from it, or
\* the placeholder itself when transform_resource returns none.
C19_PlaceholdersReplaced ==
    post_passes >= 1 =>
        /\ ~processed.raised
        /\ processed.tasks = Concat([i \in DOMAIN result_tasks |-> Replacement(result_tasks[i])])

C19_Witness ==
    /\ post_passes = 1
    /\ result_tasks = <<RegularTask, MysqlPlaceholder, CustomPlaceholder>>
    /\ "custom_resource" \in DOMAIN custom_handlers
    /\ custom_handlers["custom_resource"] = "empty_handler"
    /\ config_path = NoConfig
    /\ Len(processed.tasks) = 3
    /\ processed.tasks[1] = RegularTask
    /\ processed.tasks[2].module = "community.mysql.mysql_db"
    /\ processed.tasks[2].params = ("name" :> S_d) @@ ("login_host" :> S_h)
                                     @@ ("login_user" :> S_u) @@ ("login_password" :> S_p)
    /\ processed.tasks[3] = CustomPlaceholder

\* C20: post-processing an already post-processed task list returns the
\* same list; a task made by the table path keeps its module parameters.
C20_PostProcessIdempotent ==
    post_passes = 2 =>
        /\ ~processed_again.raised
        /\ processed_again.tasks = processed.tasks

\* C20 for task lists whose placeholders are not resolved by a table entry
C20_NoTableEntry ==
    (post_passes = 2 /\ \A i \in DOMAIN result_tasks :
                            _is_custom_resource_placeholder(result_tasks[i]) =>
                                _extract_resource_type(result_tasks[i]) \notin DOMAIN mappings)
        => /\ ~processed_again.raised
           /\ processed_again.tasks = processed.tasks

(***************************************************************************)
(* LLMConverter._extract_ansible_code.  The response is text; the three    *)
(* regular expressions are matched character by character.  yaml.safe_load *)
(* is modelled on documents made of one-line items and entries.            *)
(***************************************************************************)
\* the grave accent, a character no string of this language can hold
Grave == "U+0060"

Fence == <<Grave, Grave, Grave>>

\* the first position at or after i where w stands, 0 if there is none
Find(text, i, w) == First({k \in i..Len(text) : StartsWith(text, k, w)})

\* "(?:yaml|yml)?" at position a: the position after it
AfterLanguage(text, a, ignorecase) ==
    LET t == IF ignorecase THEN lower(text) ELSE text
    IN  IF StartsWith(t, a, <<"y", "a", "m", "l">>) THEN a + 4
        ELSE IF StartsWith(t, a, <<"y", "m", "l">>) THEN a + 3
        ELSE a

\* "\s*(.*?)FENCE" at position a: the group and the position after the match
LazyToFence(text, a) ==
    LET b == SkipSpaces(text, a)
        c == Find(text, b, Fence)
    IN  IF c = 0 THEN NoMatch
        ELSE [ok |-> TRUE, group |-> Sub(text, b, c - 1), stop |-> c + 3]

\* "#\s*{section_name}[^\n]*\n" at position i, letter case ignored: the
\* position of the newline, 0 for no match
HeaderAt(text, i, section_name) ==
    IF i > Len(text) \/ text[i] # "#" THEN 0
    ELSE IF ~StartsWith(lower(text), SkipSpaces(text, i + 1), lower(section_name)) THEN 0
    ELSE Find(text, SkipSpaces(text, i + 1) + Len(section_name), <<"\n">>)

\* #\s*{section_name}[^\n]*\n\s*FENCE(?:yaml|yml)?\s*(.*?)FENCE at position i
FencedSectionAt(text, i, section_name) ==
    LET n == HeaderAt(text, i, section_name)
        k == SkipSpaces(text, n + 1)
    IN  IF n = 0 \/ ~StartsWith(text, k, Fence) THEN NoMatch
        ELSE LazyToFence(text, AfterLanguage(text, k + 3, TRUE))

\* [ \t]* at position i
RECURSIVE SkipBlanks(_, _)
SkipBlanks(text, i) ==
    IF i <= Len(text) /\ text[i] \in {" ", "\t"} THEN SkipBlanks(text, i + 1) ELSE i

\* the last position of a newline in text, 0 if there is none
LastNewline(text) ==
    IF \E k \in DOMAIN text : text[k] = "\n"
    THEN CHOOSE k \in DOMAIN text : text[k] = "\n" /\ \A j \in k + 1..Len(text) : text[j] # "\n"
    ELSE 0

\* #\s*{section_name}[^\n]*\n((?:[ \t]*-.*\n)+) at position i: with DOTALL
\* the first .* runs to the last newline of the text
ListSectionAt(text, i, section_name) ==
    LET n == HeaderAt(text, i, section_name)
        d == SkipBlanks(text, n + 1)
    IN  IF n = 0 \/ d > Len(text) \/ text[d] # "-" \/ LastNewline(text) <= d THEN NoMatch
        ELSE [ok |-> TRUE, group |-> Sub(text, n + 1, LastNewline(text)),
              stop |-> LastNewline(text) + 1]

\* None
NoText == [found |-> FALSE, text |-> << >>]

Found(text) == [found |-> TRUE, text |-> text]

\* if section: neither None nor the empty string
Truthy(section) == section.found /\ section.text # << >>

_extract_section(text, section_name) ==
    LET i == First({k \in DOMAIN text : FencedSectionAt(text, k, section_name).ok})
        j == First({k \in DOMAIN text : ListSectionAt(text, k, section_name).ok})
    IN  IF i # 0 THEN Found(strip(FencedSectionAt(text, i, section_name).group))
        ELSE IF j # 0 THEN Found(strip(ListSectionAt(text, j, section_name).group))
        ELSE NoText

\* "(?:#\s*{block_name})?" at position b, the dots of block_name matching
\* any character: the position after it
AfterLabel(text, b, block_name) ==
    LET l == SkipSpaces(text, b + 1)
    IN  IF /\ b <= Len(text) /\ text[b] = "#"
           /\ l + Len(block_name) - 1 <= Len(text)
           /\ \A k \in DOMAIN block_name :
                  block_name[k] = "." \/ text[l + k - 1] = block_name[k]
        THEN l + Len(block_name)
        ELSE b

\* (?:FENCEyaml|FENCEyml)\s*(?:#\s*{block_name})?\s*(.*?)FENCE at position i
CodeBlockAt(text, i, block_name) ==
    IF ~StartsWith(text, i, Fence) \/ AfterLanguage(text, i + 3, FALSE) = i + 3
    THEN NoMatch
    ELSE LazyToFence(text,
             AfterLabel(text, SkipSpaces(text, AfterLanguage(text, i + 3, FALSE)), block_name))

_extract_code_block(text, block_name) ==
    LET i == First({k \in DOMAIN text : CodeBlockAt(text, k, block_name).ok})
    IN  IF i = 0 THEN NoText ELSE Found(strip(CodeBlockAt(text, i, block_name).group))

\* FENCE(?:yaml|yml)\s*(.*?)FENCE at position i
YamlBlockAt(text, i) ==
    IF ~StartsWith(text, i, Fence) \/ AfterLanguage(text, i + 3, FALSE) = i + 3
    THEN NoMatch
    ELSE LazyToFence(text, AfterLanguage(text, i + 3, FALSE))

\* re.findall from position i on
RECURSIVE FindBlocksFrom(_, _)
FindBlocksFrom(text, i) ==
    LET k == First({j \in i..Len(text) : YamlBlockAt(text, j).ok})
    IN  IF k = 0 THEN << >>
        ELSE <<strip(YamlBlockAt(text, k).group)>> \o FindBlocksFrom(text, YamlBlockAt(text, k).stop)

_extract_all_yaml_blocks(text) == FindBlocksFrom(text, 1)

\* text.split('\n')
RECURSIVE Split(_)
Split(text) ==
    LET n == Find(text, 1, <<"\n">>)
    IN  IF n = 0 THEN <<text>>
        ELSE <<Sub(text, 1, n - 1)>> \o Split(Sub(text, n + 1, Len(text)))

\* line.strip().startswith('#')
IsComment(line) == strip(line) # << >> /\ strip(line)[1] = "#"

\* the characters a plain one-line YAML scalar is made of here
IsPlain(s) == s # << >> /\ \A k \in DOMAIN s : IsWord(s[k]) \/ (s[k] = " " /\ 1 < k /\ k < Len(s))

\* one line of a YAML document: a sequence item holding a mapping with the
\* key name, a sequence item holding a scalar, a mapping entry, or a line
\* the parser rejects
ParseLine(line) ==
    LET colon == Find(line, 1, <<":", " ">>)
    IN  IF StartsWith(line, 1, <<"-", " ", "n", "a", "m", "e", ":", " ">>) /\ IsPlain(Sub(line, 9, Len(line)))
        THEN [kind |-> "item", value |-> [name |-> Sub(line, 9, Len(line))]]
        ELSE IF StartsWith(line, 1, <<"-", " ">>) /\ IsPlain(Sub(line, 3, Len(line)))
        THEN [kind |-> "item", value |-> Scalar(Sub(line, 3, Len(line)))]
        ELSE IF /\ colon > 1
                /\ IsPlain(Sub(line, 1, colon - 1))
                /\ IsPlain(Sub(line, colon + 2, Len(line)))
        THEN [kind |-> "entry", key |-> Sub(line, 1, colon - 1),
              value |-> Sub(line, colon + 2, Len(line))]
        ELSE [kind |-> "rejected"]

\* a parsed YAML mapping: the later entry of a key wins
MappingOf(entries) ==
    [key \in {entries[i].key : i \in DOMAIN entries} |->
        entries[CHOOSE i \in DOMAIN entries :
                    /\ entries[i].key = key
                    /\ \A j \in DOMAIN entries : entries[j].key = key => j <= i].value]

\* yaml.safe_load(text): none for None, a list, a mapping, or error for the
\* YAMLError of a text that is no document
safe_load(text) ==
    LET lines  == SelectSeq(Split(text), LAMBDA l : strip(l) # << >> /\ ~IsComment(l))
        parsed == [i \in DOMAIN lines |-> ParseLine(lines[i])]
    IN  IF lines = << >> THEN [kind |-> "none"]
        ELSE IF \A i \in DOMAIN parsed : parsed[i].kind = "item"
        THEN [kind |-> "list", value |-> [i \in DOMAIN parsed |-> parsed[i].value]]
        ELSE IF \A i \in DOMAIN parsed : parsed[i].kind = "entry"
        THEN [kind |-> "mapping", value |-> MappingOf(parsed)]
        ELSE [kind |-> "error"]

\* a mapping where a task is expected
MappingTask(m) == [entries |-> m]

_parse_yaml_content(yaml_content) ==
    LET parsed == safe_load(yaml_content)
    IN  CASE parsed.kind = "none"    -> << >>
          [] parsed.kind = "list"    -> parsed.value
          [] parsed.kind = "mapping" -> <<MappingTask(parsed.value)>>
          [] parsed.kind = "error"   -> << >>

EmptyMapping == [kind |-> "mapping", value |-> << >>]

RECURSIVE Join(_)
Join(lines) ==
    IF lines = << >> THEN << >>
    ELSE IF Len(lines) = 1 THEN lines[1]
    ELSE lines[1] \o <<"\n">> \o Join(Tail(lines))

\* result['variables'] for a variables section: yaml.safe_load(...) or {}
\* of the section without its comment lines, {} when safe_load raises
ParseVariables(variables_section) ==
    LET variables_yaml == strip(variables_section)
        cleaned_variables ==
            Join(SelectSeq(Split(variables_yaml), LAMBDA line : ~IsComment(line)))
        loaded == safe_load(cleaned_variables)
    IN  IF variables_yaml = << >> THEN EmptyMapping
        ELSE IF loaded.kind \in {"none", "error"} THEN EmptyMapping
        ELSE loaded

\* the section parsed, or what result held before when there is no section
ParsedOr(section, before) ==
    IF Truthy(section) THEN _parse_yaml_content(section.text) ELSE before

\* result after the sections labelled by a header have been looked for
SectionsByHeader(tasks_section, handlers_section, variables_section) ==
    [tasks |-> ParsedOr(tasks_section, << >>),
     handlers |-> ParsedOr(handlers_section, << >>),
     variables |-> IF Truthy(variables_section)
                   THEN ParseVariables(variables_section.text) ELSE EmptyMapping]

\* if not result['tasks'] and not result['handlers']: the blocks labelled
\* tasks.yml and handlers.yml
SectionsByLabel(result, tasks_match, handlers_match) ==
    IF result.tasks = << >> /\ result.handlers = << >>
    THEN [tasks |-> ParsedOr(tasks_match, result.tasks),
          handlers |-> ParsedOr(handlers_match, result.handlers),
          variables |-> result.variables]
    ELSE result

\* if not result['tasks'] and not result['handlers']: the YAML blocks in
\* their order
SectionsByOrder(result, yaml_blocks) ==
    IF result.tasks = << >> /\ result.handlers = << >> /\ yaml_blocks # << >>
    THEN [tasks |-> _parse_yaml_content(yaml_blocks[1]),
          handlers |-> IF Len(yaml_blocks) > 1
                       THEN _parse_yaml_content(yaml_blocks[2]) ELSE result.handlers,
          variables |-> result.variables]
    ELSE result

\* result as it is before the post-processing
ExtractedSections(response) ==
    SectionsByOrder(
        SectionsByLabel(
            SectionsByHeader(_extract_section(response, <<"T", "a", "s", "k", "s">>),
                             _extract_section(response, <<"H", "a", "n", "d", "l", "e", "r", "s">>),
                             _extract_section(response, <<"V", "a", "r", "i", "a", "b", "l", "e", "s">>)),
            _extract_code_block(response, <<"t", "a", "s", "k", "s", ".", "y", "m", "l">>),
            _extract_code_block(response, <<"h", "a", "n", "d", "l", "e", "r", "s", ".", "y", "m", "l">>)),
        _extract_all_yaml_blocks(response))

\* what _extract_ansible_code returns, or raised
_extract_ansible_code(response, mp, ch) ==
    LET result == ExtractedSections(response)
        post   == _post_process_custom_resources(mp, ch, result.tasks)
    IN  IF post.raised
        THEN [raised |-> TRUE, tasks |-> << >>, handlers |-> << >>, variables |-> EmptyMapping]
        ELSE [raised |-> FALSE, tasks |-> post.tasks, handlers |-> result.handlers,
              variables |-> result.variables]

(***************************************************************************)
(* SpecResponse: a response is written part by part and extracted.         *)
(***************************************************************************)
D_task    == <<"-", " ", "n", "a", "m", "e", ":", " ", "I", "n", "s", "t", "a", "l", "l", " ", "p", "a", "c", "k", "a", "g", "e">>
D_handler == <<"-", " ", "n", "a", "m", "e", ":", " ", "R", "e", "s", "t", "a", "r", "t", " ", "n", "g", "i", "n", "x">>
D_scalars == <<"-", " ", "h", "e", "l", "l", "o">>
D_mapping == <<"k", ":", " ", "v">>
D_invalid == <<"{">>

Documents == {D_task, D_handler, D_scalars, D_mapping, D_invalid}

NoHeader == << >>

Headers == {NoHeader, <<"T", "a", "s", "k", "s">>, <<"H", "a", "n", "d", "l", "e", "r", "s">>, <<"V", "a", "r", "i", "a", "b", "l", "e", "s">>}

\* a part of a response: a document, fenced or not, under a header or not
Part(header, fenced, document) ==
    [header |-> header, fenced |-> fenced, document |-> document]

Parts == {Part(h, f, d) : h \in Headers, f \in BOOLEAN, d \in Documents}

RenderPart(p) ==
    (IF p.header = NoHeader THEN << >> ELSE <<"#", " ">> \o p.header \o <<"\n">>)
    \o (IF p.fenced THEN Fence \o <<"y", "a", "m", "l">> \o <<"\n">> \o p.document \o <<"\n">> \o Fence
        ELSE p.document)
    \o <<"\n">>

RECURSIVE RenderParts(_)
RenderParts(ps) == IF ps = << >> THEN << >> ELSE RenderPart(ps[1]) \o RenderParts(Tail(ps))

otherThanResponse ==
    <<registryVars, lastCallVars, parVars, parserVars, recipeVars, templateVars,
      postVars, convertVars, cloneVars, loadVars, repositoryVars, validateVars,
      progressVars, pathsVars>>

\* the translator writes one more part
AddPart(p) ==
    /\ ~response_extracted
    /\ Len(response_parts) < MaxParts
    /\ response_parts' = Append(response_parts, p)
    /\ response_text' = RenderParts(response_parts')
    /\ UNCHANGED <<response_extracted, extraction, otherThanResponse>>

\* return self._extract_ansible_code(response)
ExtractAnsibleCode ==
    /\ ~response_extracted
    /\ response_extracted' = TRUE
    /\ extraction' = _extract_ansible_code(response_text, mappings, custom_handlers)
    /\ UNCHANGED <<response_parts, response_text, otherThanResponse>>

Respond == \E p \in Parts : AddPart(p)

NextResponse == Respond \/ ExtractAnsibleCode

SpecResponse == Init /\ [][NextResponse]_vars

\* a list of mappings
IsTaskList(tasks) == \A i \in DOMAIN tasks : IsMapping(tasks[i])

\* C15: _extract_ansible_code never raises; tasks and handlers are lists of
\* task mappings and variables is a mapping, whatever the response holds.
C15_NeverRaises ==
    response_extracted =>
        /\ ~extraction.raised
        /\ IsTaskList(extraction.tasks)
        /\ IsTaskList(extraction.handlers)
        /\ extraction.variables.kind = "mapping"

\* the documents of a response are of the kind their section expects
SectionsWellFormed ==
    \A i \in DOMAIN response_parts :
        /\ response_parts[i].fenced
        /\ response_parts[i].header = <<"V", "a", "r", "i", "a", "b", "l", "e", "s">> => response_parts[i].document = D_mapping
        /\ response_parts[i].header # <<"V", "a", "r", "i", "a", "b", "l", "e", "s">> =>
               response_parts[i].document \in {D_task, D_handler, D_invalid}

\* C15 for responses of fenced sections whose documents are task lists,
\* invalid YAML, or a mapping under Variables
C15_WellFormedSections ==
    (response_extracted /\ SectionsWellFormed) =>
        /\ ~extraction.raised
        /\ IsTaskList(extraction.tasks)
        /\ IsTaskList(extraction.handlers)
        /\ extraction.variables.kind = "mapping"

Unlabelled ==
    /\ response_parts # << >>
    /\ \A i \in DOMAIN response_parts :
           response_parts[i].header = NoHeader /\ response_parts[i].fenced

\* C18: without section headers the tasks are the first fenced block and
\* the handlers the second one, empty when there is none.
C18_BlockOrder ==
    (response_extracted /\ Unlabelled /\ ~extraction.raised) =>
        /\ extraction.tasks = _parse_yaml_content(response_parts[1].document)
        /\ extraction.handlers =
               IF Len(response_parts) > 1
               THEN _parse_yaml_content(response_parts[2].document)
               ELSE << >>

\* C18 for responses whose first block holds no task
C18_FirstBlockEmpty ==
    (response_extracted /\ Unlabelled /\ ~extraction.raised
       /\ _parse_yaml_content(response_parts[1].document) = << >>) =>
        /\ extraction.tasks = << >>
        /\ extraction.handlers =
               IF Len(response_parts) > 1
               THEN _parse_yaml_content(response_parts[2].document)
               ELSE << >>

(***************************************************************************)
(* One cookbook on its way from the parser to the role generator, by       *)
(* ChefToAnsibleConverter.convert_repository (src/chef_to_ansible.py) or   *)
(* by convert_cookbook of src/cli.py.  What the translator answers for a   *)
(* recipe is a choice among a few results.                                 *)
(***************************************************************************)
EndsWith(text, w) == Len(text) >= Len(w) /\ Sub(text, Len(text) - Len(w) + 1, Len(text)) = w

\* new_path
NewPath(original_path) ==
    LET p == IF StartsWith(original_path, 1, <<"d", "e", "f", "a", "u", "l", "t", "/">>)
             THEN Sub(original_path, 9, Len(original_path)) ELSE original_path
    IN  IF EndsWith(p, <<".", "e", "r", "b">>) THEN Sub(p, 1, Len(p) - 4) \o <<".", "j", "2">>
        ELSE IF ~EndsWith(p, <<".", "j", "2">>) THEN p \o <<".", "j", "2">>
        ELSE p

\* header
TemplateHeader(template_name) ==
    <<"#", "\n">> \o <<"#", " ", "A", "n", "s", "i", "b", "l", "e", " ", "T", "e", "m", "p", "l", "a", "t", "e", ":", " ">> \o template_name \o <<"\n">>
    \o <<"#", " ", "C", "o", "n", "v", "e", "r", "t", "e", "d", " ", "f", "r", "o", "m", " ", "C", "h", "e", "f", " ", "E", "R", "B", " ", "t", "e", "m", "p", "l", "a", "t", "e">> \o <<"\n", "#", "\n", "\n">>

\* the record convert_templates appends for one template with content
ConvertTemplate(template) ==
    [name |-> template.name,
     path |-> NewPath(template.path),
     content |-> TemplateHeader(template.name) \o _convert_erb_to_jinja(template.content)]

SampleContent ==
    <<"#", " ", "S", "a", "m", "p", "l", "e", " ", "A", "n", "s", "i", "b", "l", "e", " ", "t", "e", "m", "p", "l", "a", "t", "e">> \o <<"\n">>
    \o <<"#", " ", "T", "h", "i", "s", " ", "i", "s", " ", "a", " ", "p", "l", "a", "c", "e", "h", "o", "l", "d", "e", "r", " ", "f", "o", "r", " ", "d", "e", "m", "o", "n", "s", "t", "r", "a", "t", "i", "o", "n", " ", "p", "u", "r", "p", "o", "s", "e", "s">> \o <<"\n">>
    \o << >> \o <<"\n">>
    \o <<"#", " ", "E", "x", "a", "m", "p", "l", "e", " ", "o", "f", " ", "v", "a", "r", "i", "a", "b", "l", "e", " ", "u", "s", "a", "g", "e", ":">> \o <<"\n">>
    \o <<"{", "{", " ", "a", "n", "s", "i", "b", "l", "e", "_", "h", "o", "s", "t", "n", "a", "m", "e", " ", "}", "}">> \o <<"\n">>
    \o <<"{", "{", " ", "i", "n", "v", "e", "n", "t", "o", "r", "y", "_", "h", "o", "s", "t", "n", "a", "m", "e", " ", "}", "}">> \o <<"\n">>
    \o << >> \o <<"\n">>
    \o <<"#", " ", "E", "x", "a", "m", "p", "l", "e", " ", "o", "f", " ", "c", "o", "n", "d", "i", "t", "i", "o", "n", "a", "l", ":">> \o <<"\n">>
    \o <<"{", "%", " ", "i", "f", " ", "a", "n", "s", "i", "b", "l", "e", "_", "o", "s", "_", "f", "a", "m", "i", "l", "y", " ", "=", "=", " ", "\"", "D", "e", "b", "i", "a", "n", "\"", " ", "%", "}">> \o <<"\n">>
    \o <<"T", "h", "i", "s", " ", "i", "s", " ", "a", " ", "D", "e", "b", "i", "a", "n", "-", "b", "a", "s", "e", "d", " ", "s", "y", "s", "t", "e", "m">> \o <<"\n">>
    \o <<"{", "%", " ", "e", "l", "i", "f", " ", "a", "n", "s", "i", "b", "l", "e", "_", "o", "s", "_", "f", "a", "m", "i", "l", "y", " ", "=", "=", " ", "\"", "R", "e", "d", "H", "a", "t", "\"", " ", "%", "}">> \o <<"\n">>
    \o <<"T", "h", "i", "s", " ", "i", "s", " ", "a", " ", "R", "e", "d", "H", "a", "t", "-", "b", "a", "s", "e", "d", " ", "s", "y", "s", "t", "e", "m">> \o <<"\n">>
    \o <<"{", "%", " ", "e", "l", "s", "e", " ", "%", "}">> \o <<"\n">>
    \o <<"T", "h", "i", "s", " ", "i", "s", " ", "a", "n", "o", "t", "h", "e", "r", " ", "t", "y", "p", "e", " ", "o", "f", " ", "s", "y", "s", "t", "e", "m">> \o <<"\n">>
    \o <<"{", "%", " ", "e", "n", "d", "i", "f", " ", "%", "}">>

\* the template returned when the cookbook has none
sample_template ==
    [name |-> <<"s", "a", "m", "p", "l", "e">>, path |-> <<"s", "a", "m", "p", "l", "e", ".", "j", "2">>, content |-> SampleContent]

RECURSIVE ConvertTemplatesFrom(_, _)
ConvertTemplatesFrom(templates, i) ==
    IF i > Len(templates) THEN << >>
    ELSE IF templates[i].content = None THEN ConvertTemplatesFrom(templates, i + 1)
    ELSE <<ConvertTemplate(templates[i])>> \o ConvertTemplatesFrom(templates, i + 1)

convert_templates(templates) ==
    IF templates = << >> THEN <<sample_template>> ELSE ConvertTemplatesFrom(templates, 1)

\* what convert_recipe returns for a recipe
ConversionResult(tasks, handlers, variables) ==
    [tasks |-> tasks, handlers |-> handlers, variables |-> variables]

RestartHandler ==
    Task(<<"Restart nginx">>, "ansible.builtin.service",
         ("name" :> <<"n", "g", "i", "n", "x">>) @@ ("state" :> <<"r", "e", "s", "t", "a", "r", "t", "e", "d">>))

ConversionResults ==
    {ConversionResult(<< >>, << >>, NoMap),
     ConversionResult(<<RegularTask>>, <<RestartHandler>>, ("port" :> <<"8", "0">>))}

\* the result of convert_cookbook for the results of its recipes
RECURSIVE convert_cookbook(_)
convert_cookbook(conversion_results) ==
    IF conversion_results = << >> THEN ConversionResult(<< >>, << >>, NoMap)
    ELSE LET result == convert_cookbook(Sub(conversion_results, 1, Len(conversion_results) - 1))
             conversion_result == conversion_results[Len(conversion_results)]
         IN  ConversionResult(result.tasks \o conversion_result.tasks,
                              result.handlers \o conversion_result.handlers,
                              conversion_result.variables @@ result.variables)

\* ansible_data['templates'] = ansible_templates
WithTemplates(ansible_code, ansible_templates) ==
    [tasks |-> ansible_code.tasks, handlers |-> ansible_code.handlers,
     variables |-> ansible_code.variables, templates |-> ansible_templates]

\* the files generate_ansible_role writes under templates/
WrittenTemplates(data) ==
    IF "templates" \in DOMAIN data
    THEN [i \in DOMAIN data.templates |->
             [path |-> data.templates[i].path, content |-> data.templates[i].content]]
    ELSE << >>

\* a parsed template: the record _find_templates makes of a file
ParsedTemplate(name, path, template_text) ==
    [name |-> name, path |-> path, content |-> template_text]

ParsedTemplates ==
    {ParsedTemplate(<<"n", "g", "i", "n", "x", ".", "c", "o", "n", "f", ".", "e", "r", "b">>, <<"d", "e", "f", "a", "u", "l", "t", "/", "n", "g", "i", "n", "x", ".", "c", "o", "n", "f", ".", "e", "r", "b">>, c) : c \in {None, T_output}}
    \cup {ParsedTemplate(<<"m", "o", "t", "d">>, <<"m", "o", "t", "d">>, c) : c \in {None, T_text}}

RecipeNames == {"default", "install"}

otherThanConvert ==
    <<registryVars, lastCallVars, parVars, parserVars, recipeVars, templateVars,
      postVars, responseVars, cloneVars, loadVars, repositoryVars, validateVars,
      progressVars, pathsVars>>

\* parse_cookbook finds one more recipe
FindRecipe(r) ==
    /\ convert_pc = "parsing"
    /\ Len(cookbook_recipes) < MaxRecipes
    /\ cookbook_recipes' = Append(cookbook_recipes, r)
    /\ UNCHANGED <<cookbook_templates, entry_point, convert_pc, ansible_data,
                   role_templates, otherThanConvert>>

\* parse_cookbook finds one more template
FindTemplate(t) ==
    /\ convert_pc = "parsing"
    /\ Len(cookbook_templates) < MaxTemplates
    /\ cookbook_templates' = Append(cookbook_templates, t)
    /\ UNCHANGED <<cookbook_recipes, entry_point, convert_pc, ansible_data,
                   role_templates, otherThanConvert>>

\* convert_repository: a cookbook without recipes is skipped
SkipCookbook ==
    /\ convert_pc = "parsing"
    /\ cookbook_recipes = << >>
    /\ entry_point' = "convert_repository"
    /\ convert_pc' = "skipped"
    /\ UNCHANGED <<cookbook_recipes, cookbook_templates, ansible_data, role_templates,
                   otherThanConvert>>

\* convert_repository: ansible_code = self.llm_converter.convert_cookbook(...)
ConvertCookbook ==
    /\ convert_pc = "parsing"
    /\ cookbook_recipes # << >>
    /\ entry_point' = "convert_repository"
    /\ \E conversion_results \in [DOMAIN cookbook_recipes -> ConversionResults] :
           ansible_data' = convert_cookbook(conversion_results)
    /\ convert_pc' = "converted"
    /\ UNCHANGED <<cookbook_recipes, cookbook_templates, role_templates, otherThanConvert>>

\* cli.py: convert_cookbook, then convert_templates into ansible_data
CliConvertCookbook ==
    /\ convert_pc = "parsing"
    /\ entry_point' = "cli"
    /\ \E conversion_results \in [DOMAIN cookbook_recipes -> ConversionResults] :
           ansible_data' = WithTemplates(convert_cookbook(conversion_results),
                                         convert_templates(cookbook_templates))
    /\ convert_pc' = "converted"
    /\ UNCHANGED <<cookbook_recipes, cookbook_templates, role_templates, otherThanConvert>>

\* the translator fails: the cookbook is counted as failed
TranslatorRaises ==
    /\ convert_pc = "parsing"
    /\ cookbook_recipes # << >>
    /\ \E e \in {"convert_repository", "cli"} : entry_point' = e
    /\ convert_pc' = "failed"
    /\ UNCHANGED <<cookbook_recipes, cookbook_templates, ansible_data, role_templates,
                   otherThanConvert>>

\* generate_ansible_role(ansible_code, ansible_path): the files are written,
\* then the README is made of ansible_data['name']
GenerateAnsibleRole ==
    /\ convert_pc = "converted"
    /\ role_templates' = WrittenTemplates(ansible_data)
    /\ convert_pc' = IF "name" \in DOMAIN ansible_data THEN "generated" ELSE "generate_raised"
    /\ UNCHANGED <<cookbook_recipes, cookbook_templates, entry_point, ansible_data,
                   otherThanConvert>>

FindFiles ==
    \/ \E r \in RecipeNames : FindRecipe(r)
    \/ \E t \in ParsedTemplates : FindTemplate(t)

NextConvert ==
    \/ FindFiles
    \/ SkipCookbook
    \/ ConvertCookbook
    \/ CliConvertCookbook
    \/ TranslatorRaises
    \/ GenerateAnsibleRole

SpecConvert == Init /\ [][NextConvert]_vars

BundleTemplates == IF "templates" \in DOMAIN ansible_data THEN ansible_data.templates ELSE << >>

Transpiled ==
    \A i \in DOMAIN cookbook_templates :
        cookbook_templates[i].content # None =>
            /\ \E j \in DOMAIN BundleTemplates :
                   BundleTemplates[j] = ConvertTemplate(cookbook_templates[i])
            /\ \E j \in DOMAIN role_templates :
                   /\ role_templates[j].path = NewPath(cookbook_templates[i].path)
                   /\ role_templates[j].content = ConvertTemplate(cookbook_templates[i]).content

\* C16: when a converted cookbook has been handed to generate_ansible_role,
\* every parsed template with content is in the bundle as its transpiled
\* record, whatever the translator returned.
C16_TemplatesInBundle ==
    convert_pc \in {"generated", "generate_raised"} => Transpiled

\* C16 for the conversions run by convert_cookbook of src/cli.py
C16_CliTemplatesInBundle ==
    (convert_pc \in {"generated", "generate_raised"} /\ entry_point = "cli") => Transpiled

(***************************************************************************)
(* GitRepoHandler.clone_repository and cleanup (src/src/repo_handler.py).  *)
(* A temporary directory is a number; temp_dirs holds those that exist.    *)
(***************************************************************************)
\* what subprocess.run(['git', 'clone', ...], check=True) does
Cloned == [kind |-> "cloned"]

\* git exits non-zero: CalledProcessError, a SubprocessError, with stderr
ExitNonZero(stderr) ==
    [kind |-> "raised", exception |-> "CalledProcessError", text |-> stderr]

\* there is no git executable: FileNotFoundError, an OSError
GitMissing ==
    [kind |-> "raised", exception |-> "FileNotFoundError",
     text |-> "[Errno 2] No such file or directory: 'git'"]

GitOutcomes ==
    {Cloned, GitMissing,
     ExitNonZero("fatal: repository not found"),
     ExitNonZero("fatal: unable to access")}

GitUrls == {"https://example.com/chef.git", "/srv/chef.git"}

\* the classes except subprocess.SubprocessError catches
SubprocessErrors == {"SubprocessError", "CalledProcessError", "TimeoutExpired"}

\* one call of clone_repository: the directories that exist afterwards and
\* what the call returned or raised
clone_repository(dirs, temp_dir, git_url, run) ==
    IF run.kind = "cloned"
    THEN [temp_dirs |-> dirs \cup {temp_dir}, git_url |-> git_url, temp_dir |-> temp_dir,
          run |-> run, raised |-> "", message |-> << >>]
    ELSE IF run.exception \in SubprocessErrors
    THEN [temp_dirs |-> dirs \ {temp_dir}, git_url |-> git_url, temp_dir |-> temp_dir,
          run |-> run, raised |-> "RuntimeError",
          message |-> <<"Failed to clone repository: ", run.text>>]
    ELSE [temp_dirs |-> dirs \cup {temp_dir}, git_url |-> git_url, temp_dir |-> temp_dir,
          run |-> run, raised |-> run.exception, message |-> <<run.text>>]

otherThanClone ==
    <<registryVars, lastCallVars, parVars, parserVars, recipeVars, templateVars,
      postVars, responseVars, convertVars, loadVars, repositoryVars, validateVars,
      progressVars, pathsVars>>

\* repo_path = self.repo_handler.clone_repository(git_url)
CloneRepository(git_url, run) ==
    LET call == clone_repository(temp_dirs, Len(clone_calls) + 1, git_url, run)
    IN  /\ Len(clone_calls) < MaxClones
        /\ temp_dirs' = call.temp_dirs
        /\ clone_calls' = Append(clone_calls, [c \in DOMAIN call \ {"temp_dirs"} |-> call[c]])
        /\ UNCHANGED otherThanClone

\* self.repo_handler.cleanup(repo_path) for a path clone_repository returned
Cleanup(i) ==
    /\ clone_calls[i].raised = ""
    /\ clone_calls[i].temp_dir \in temp_dirs
    /\ temp_dirs' = temp_dirs \ {clone_calls[i].temp_dir}
    /\ UNCHANGED <<clone_calls, otherThanClone>>

Clone == \E git_url \in GitUrls, run \in GitOutcomes : CloneRepository(git_url, run)

CleanupCloned == \E i \in DOMAIN clone_calls : Cleanup(i)

NextClone == Clone \/ CleanupCloned

SpecClone == Init /\ [][NextClone]_vars

FailureReported(call) ==
    /\ call.raised = "RuntimeError"
    /\ call.message = <<"Failed to clone repository: ", call.run.text>>
    /\ call.temp_dir \notin temp_dirs

\* C17: whenever the clone fails, whatever the cause, clone_repository
\* raises a RuntimeError "Failed to clone repository: <failure text>" and
\* its temporary directory is gone.
C17_FailedCloneCleansUp ==
    \A i \in DOMAIN clone_calls :
        clone_calls[i].run.kind = "raised" => FailureReported(clone_calls[i])

\* C17 for the clones that fail because git exits non-zero
C17_GitExitsNonZero ==
    \A i \in DOMAIN clone_calls :
        (clone_calls[i].run.kind = "raised"
           /\ clone_calls[i].run.exception = "CalledProcessError")
            => FailureReported(clone_calls[i])

(***************************************************************************)
(* SpecLoad: registries are constructed on overlay files of every kind.    *)
(***************************************************************************)
OverlayPaths == ConfigPaths \cup {"malformed.json", "array.json", "null.json"}

LoadFails(path) == path # NoConfig /\ JsonLoad(path).kind # "object"

otherThanLoad ==
    <<registryVars, lastCallVars, parVars, parserVars, recipeVars, templateVars,
      postVars, responseVars, convertVars, cloneVars, repositoryVars, validateVars,
      progressVars, pathsVars>>

\* ResourceMapping(config_path): nothing in the constructor raises
Construct(path) ==
    /\ Len(registries) < MaxRegistries
    /\ registries' = Append(registries,
                            [config_path |-> path, raised |-> FALSE,
                             mappings |-> __init__(path)])
    /\ UNCHANGED otherThanLoad

NextLoad == \E path \in OverlayPaths : Construct(path)

SpecLoad == Init /\ [][NextLoad]_vars

\* C21: a constructor whose overlay cannot be loaded does not raise and
\* leaves the built-in table as it is; an overlay that loads is applied
\* with every one of its entries.
C21_OverlayAllOrNothing ==
    \A i \in DOMAIN registries :
        /\ ~registries[i].raised
        /\ LoadFails(registries[i].config_path) =>
               registries[i].mappings = _load_default_mappings
        /\ registries[i].config_path \in DOMAIN ConfigFiles =>
               \A k \in DOMAIN ConfigFiles[registries[i].config_path] :
                   /\ k \in DOMAIN registries[i].mappings
                   /\ registries[i].mappings[k] = ConfigFiles[registries[i].config_path][k]

C21_Witness ==
    /\ Len(registries) = 3
    /\ registries[1].config_path = "array.json"
    /\ registries[2].config_path = "malformed.json"
    /\ registries[3].config_path = "missing.json"
    /\ \A i \in 1..3 : registries[i].mappings = DefaultMappings

(***************************************************************************)
(* SpecRepository: convert_repository on a cloned repository, one cookbook *)
(* of the loop per step.                                                   *)
(***************************************************************************)
otherThanRepository ==
    <<registryVars, lastCallVars, parVars, parserVars, recipeVars, templateVars,
      postVars, responseVars, convertVars, cloneVars, loadVars, validateVars,
      progressVars, pathsVars>>

\* a cookbook of the repository: its name and what each stage does with it
\*   parse:     parse_cookbook finds recipes, finds none, or raises
\*   translate: llm_converter.convert_cookbook returns a result or raises
\*   validate:  what the validator reports for the role once it is written
Cookbook(name, parse, translate, validate) ==
    [name |-> name, parse |-> parse, translate |-> translate, validate |-> validate]

Cookbooks ==
    {Cookbook("nginx", "recipes", "result", "valid"),
     Cookbook("mysql", "recipes", "result", "invalid"),
     Cookbook("apache", "recipes", "raises", "valid"),
     Cookbook("empty", "no_recipes", "result", "valid"),
     Cookbook("broken", "raises", "result", "valid")}

\* the result convert_cookbook returns for a cookbook it can translate
TranslatorResult ==
    convert_cookbook(<<ConversionResult(<<RegularTask>>, <<RestartHandler>>,
                                        ("port" :> <<"8", "0">>))>>)

\* generate_ansible_role: the README is written from ansible_data['name']
generate_ansible_role(data) ==
    IF "name" \in DOMAIN data THEN "written" ELSE "KeyError"

\* the except block of the loop that only appends the entry
RecordFailureUncounted(res, cookbook, e) ==
    [success_count |-> res.success_count,
     failed_count |-> res.failed_count,
     details |-> Append(res.details,
                        [cookbook |-> cookbook.name, success |-> FALSE, messages |-> <<e>>])]

\* except Exception as e: one failed entry, failed_count += 1
RecordFailure(res, cookbook, e) ==
    [success_count |-> res.success_count,
     failed_count |-> res.failed_count + 1,
     details |-> Append(res.details,
                        [cookbook |-> cookbook.name, success |-> FALSE, messages |-> <<e>>])]

\* the entry appended after validate, and the counter it moves
RecordValidation(res, cookbook, valid) ==
    [success_count |-> IF valid THEN res.success_count + 1 ELSE res.success_count,
     failed_count |-> IF valid THEN res.failed_count ELSE res.failed_count + 1,
     details |-> Append(res.details,
                        [cookbook |-> cookbook.name, success |-> valid,
                         messages |-> IF valid THEN << >> ELSE <<"Dry-run failed">>])]

\* the body of the loop for one cookbook
ConvertOne(res, cookbook) ==
    IF cookbook.parse = "raises" THEN RecordFailure(res, cookbook, "parse_cookbook raised")
    ELSE IF cookbook.parse = "no_recipes" THEN res
    ELSE IF cookbook.translate = "raises"
         THEN RecordFailure(res, cookbook, "convert_cookbook raised")
    ELSE IF generate_ansible_role(TranslatorResult) = "KeyError"
         THEN RecordFailure(res, cookbook, "'name'")
    ELSE RecordValidation(res, cookbook, cookbook.validate = "valid")

AddCookbook(cookbook) ==
    /\ repository_pc = "cloned"
    /\ Len(repo_cookbooks) < MaxCookbooks
    /\ repo_cookbooks' = Append(repo_cookbooks, cookbook)
    /\ UNCHANGED <<repository_pc, cookbook_index, results, repo_cleaned, otherThanRepository>>

\* find_cookbooks and what follows it up to the loop; reading a metadata.rb
\* raises out of find_cookbooks, which nothing around the call catches
FindCookbooks(outcome) ==
    /\ repository_pc = "cloned"
    /\ outcome = "raises" => repo_cookbooks # << >>
    /\ IF outcome = "raises"
       THEN repository_pc' = "raised" /\ UNCHANGED repo_cleaned
       ELSE IF repo_cookbooks = << >>
       THEN repository_pc' = "returned" /\ repo_cleaned' = TRUE
       ELSE repository_pc' = "looping" /\ UNCHANGED repo_cleaned
    /\ cookbook_index' = 1
    /\ UNCHANGED <<repo_cookbooks, results, otherThanRepository>>

ConvertNextCookbook ==
    /\ repository_pc = "looping"
    /\ cookbook_index <= Len(repo_cookbooks)
    /\ results' = ConvertOne(results, repo_cookbooks[cookbook_index])
    /\ cookbook_index' = cookbook_index + 1
    /\ UNCHANGED <<repo_cookbooks, repository_pc, repo_cleaned, otherThanRepository>>

\* after the loop: self.repo_handler.cleanup(repo_path); return results
FinishRepository ==
    /\ repository_pc = "looping"
    /\ cookbook_index > Len(repo_cookbooks)
    /\ repo_cleaned' = TRUE
    /\ repository_pc' = "returned"
    /\ UNCHANGED <<repo_cookbooks, cookbook_index, results, otherThanRepository>>

AddToRepository == \E cookbook \in Cookbooks : AddCookbook(cookbook)

Find_ == \E outcome \in {"found", "raises"} : FindCookbooks(outcome)

NextRepository == AddToRepository \/ Find_ \/ ConvertNextCookbook \/ FinishRepository

SpecRepository == Init /\ [][NextRepository]_vars

\* the cookbooks the loop has gone through
Converted ==
    IF repository_pc \in {"looping", "returned"} /\ cookbook_index > 0
    THEN Sub(repo_cookbooks, 1, cookbook_index - 1) ELSE << >>

HasEntry(cookbook) == cookbook.parse # "no_recipes"

Raises(cookbook) ==
    \/ cookbook.parse = "raises"
    \/ cookbook.parse = "recipes" /\ cookbook.translate = "raises"

\* C22: every cookbook the loop has gone through that has recipes, or that
\* raised, has exactly one details entry, in the order of the cookbooks; the
\* entry of a cookbook that raised is a failed one; the two counters add up
\* to the number of entries; and a finished conversion has gone through
\* every cookbook.
C22_OneEntryPerCookbook ==
    LET entered == SelectSeq(Converted, HasEntry)
    IN  /\ Len(results.details) = Len(entered)
        /\ \A i \in DOMAIN entered :
               /\ results.details[i].cookbook = entered[i].name
               /\ Raises(entered[i]) => ~results.details[i].success
        /\ results.success_count + results.failed_count = Len(results.details)
        /\ results.failed_count =
               Cardinality({i \in DOMAIN results.details : ~results.details[i].success})
        /\ repository_pc = "returned" => Len(Converted) = Len(repo_cookbooks)

C22_Witness ==
    /\ repository_pc = "returned"
    /\ Len(repo_cookbooks) = 3
    /\ repo_cookbooks[1].name = "broken"
    /\ repo_cookbooks[2].name = "apache"
    /\ repo_cookbooks[3].name = "nginx"
    /\ Len(results.details) = 3

ShouldSucceed(cookbook) ==
    cookbook.parse = "recipes" /\ cookbook.translate = "result" /\ cookbook.validate = "valid"

\* C23: when the conversion has returned, every cookbook with recipes that
\* the translator returned a result for and whose role validates is counted
\* in success_count.
C23_ValidCookbooksCounted ==
    repository_pc = "returned" =>
        results.success_count = Len(SelectSeq(repo_cookbooks, ShouldSucceed))

\* what happens instead: generate_ansible_role raises KeyError on the result
\* of convert_cookbook, so that no cookbook is ever counted a success
C23_NeverCounted ==
    /\ results.success_count = 0
    /\ generate_ansible_role(TranslatorResult) = "KeyError"

\* C24: however convert_repository finishes, the cloned repository has been
\* cleaned up by then.
C24_CleanupOnEveryPath ==
    repository_pc \in {"returned", "raised"} => repo_cleaned

\* what holds instead: it is cleaned up on the paths that return
C24_CleanupOnReturn ==
    /\ repository_pc = "returned" => repo_cleaned
    /\ repository_pc = "raised" => ~repo_cleaned

(***************************************************************************)
(* SpecValidate: one AnsibleValidator validating roles, one after another. *)
(***************************************************************************)
otherThanValidate ==
    <<registryVars, lastCallVars, parVars, parserVars, recipeVars, templateVars,
      postVars, responseVars, convertVars, cloneVars, loadVars, repositoryVars,
      progressVars, pathsVars>>

NoResults == [errors |-> << >>, warnings |-> << >>, passed |-> << >>]

\* what the checks find in a role directory
\*   missing_dirs:  the required directories that do not exist
\*   missing_files: the required files that do not exist
\*   yaml:          "valid", "YAMLError" (a file does not parse), "OSError" (a file cannot be read)
\*   lint:          ansible-lint exits "zero" or "nonzero", or is "missing"
\*   dry_run:       ansible-playbook exits "zero" or "nonzero", or "mkdtemp_raises"
Roles ==
    [missing_dirs : {<< >>, <<"templates">>},
     missing_files : {<< >>, <<"meta/main.yml">>},
     yaml : {"valid", "YAMLError", "OSError"},
     lint : {"zero", "nonzero", "missing"},
     dry_run : {"zero", "nonzero", "mkdtemp_raises"}]

AddError(res, msg) ==
    [errors |-> Append(res.errors, msg), warnings |-> res.warnings, passed |-> res.passed]

AddWarning(res, msg) ==
    [errors |-> res.errors, warnings |-> Append(res.warnings, msg), passed |-> res.passed]

AddPassed(res, msg) ==
    [errors |-> res.errors, warnings |-> res.warnings, passed |-> Append(res.passed, msg)]

\* a check's outcome: the results it leaves and whether it raised
Checked(res) == [results |-> res, raised |-> FALSE]
CheckRaised(res) == [results |-> res, raised |-> TRUE]

required_dirs == <<"tasks", "handlers", "templates">>
required_files == <<"tasks/main.yml", "meta/main.yml">>

In(x, seq) == \E i \in DOMAIN seq : seq[i] = x

RECURSIVE CheckDirs(_, _, _)
CheckDirs(res, role, i) ==
    IF i > Len(required_dirs) THEN res
    ELSE CheckDirs(IF In(required_dirs[i], role.missing_dirs)
                   THEN AddWarning(res, <<"Missing directory", required_dirs[i]>>)
                   ELSE res,
                   role, i + 1)

RECURSIVE CheckFiles(_, _, _)
CheckFiles(res, role, i) ==
    IF i > Len(required_files) THEN res
    ELSE CheckFiles(IF In(required_files[i], role.missing_files)
                    THEN AddError(res, <<"Missing required file", required_files[i]>>)
                    ELSE AddPassed(res, <<"Found required file", required_files[i]>>),
                    role, i + 1)

_validate_role_structure(res, role) == Checked(CheckFiles(CheckDirs(res, role, 1), role, 1))

\* only yaml.YAMLError is caught here
_validate_syntax(res, role) ==
    CASE role.yaml = "valid" -> Checked(AddPassed(res, <<"Valid YAML">>))
      [] role.yaml = "YAMLError" -> Checked(AddError(res, <<"Invalid YAML">>))
      [] OTHER -> CheckRaised(res)

_validate_linting(res, role) ==
    CASE role.lint = "zero" -> Checked(AddPassed(res, <<"ansible-lint passed">>))
      [] role.lint = "nonzero" -> Checked(AddWarning(res, <<"ansible-lint issues">>))
      [] OTHER -> Checked(AddError(res, <<"Linting failed">>))

\* when mkdtemp raises, the except block records the failure and the finally
\* block raises on the unbound test_dir
_test_role_execution(res, role) ==
    CASE role.dry_run = "zero" -> Checked(AddPassed(res, <<"Dry-run execution successful">>))
      [] role.dry_run = "nonzero" -> Checked(AddError(res, <<"Dry-run failed">>))
      [] OTHER -> CheckRaised(AddError(res, <<"Execution test failed">>))

\* a check that runs unless an earlier one raised
Then(checked, next) == IF checked.raised THEN checked ELSE next

\* the try block of validate and its except clause
RunChecks(res, role) ==
    LET structure == _validate_role_structure(res, role)
        syntax == Then(structure, _validate_syntax(structure.results, role))
        linting == Then(syntax, _validate_linting(syntax.results, role))
        execution == Then(linting, _test_role_execution(linting.results, role))
    IN  IF execution.raised THEN AddError(execution.results, <<"Validation error">>)
        ELSE execution.results

\* a validate that keeps what self.results holds
KeepResults(res) == res

\* self.results = {'errors': [], 'warnings': [], 'passed': []}
ResetResults(res) == NoResults

\* validate(role_path): the results it leaves in self.results and what it returns
validate(res, role) ==
    LET after == RunChecks(ResetResults(res), role)
    IN  [results |-> after,
         returned |-> [valid |-> Len(after.errors) = 0,
                       messages |-> after.errors \o after.warnings]]

Validate(role) ==
    /\ validate_count < MaxValidations
    /\ validator_results' = validate(validator_results, role).results
    /\ validation' = validate(validator_results, role).returned
    /\ validated_role' = role
    /\ validate_count' = validate_count + 1
    /\ UNCHANGED otherThanValidate

\* a caller appending to validator.results before the next call
AppendError ==
    /\ validate_count < MaxValidations
    /\ Len(validator_results.errors) < MaxErrors
    /\ ~In(<<"Test error">>, validator_results.errors)
    /\ validator_results' = AddError(validator_results, <<"Test error">>)
    /\ UNCHANGED <<validated_role, validation, validate_count, otherThanValidate>>

ValidateRole == \E role \in Roles : Validate(role)

NextValidate == ValidateRole \/ AppendError

SpecValidate == Init /\ [][NextValidate]_vars

\* the messages a role's checks are to record: every failing check that is
\* reached, in the order of the checks
Reached(role, check) ==
    CASE check = "syntax" -> TRUE
      [] check = "lint" -> role.yaml # "OSError"
      [] check = "dry_run" -> role.yaml # "OSError"

otherThanProgress ==
    <<registryVars, lastCallVars, parVars, parserVars, recipeVars, templateVars,
      postVars, responseVars, convertVars, cloneVars, loadVars, repositoryVars,
      validateVars, pathsVars>>

\* an update: its status, the function that put it, whether it carries redirect_url
Update(status, source, redirect_url) ==
    [status |-> status, source |-> source, redirect_url |-> redirect_url]

Processing(source) == Update("processing", source, FALSE)

\* the last update run_conversion puts when it gets to its end
completion_message == Update("completed", "run_conversion", TRUE)

\* the update of the outer except clause of run_conversion
ErrorMessage == Update("error", "run_conversion", FALSE)

StreamEnd == Update("stream_end", "progress_stream", FALSE)

IsFinal(update) == update.status \in {"completed", "error"}

\* what the translator does with a cookbook of the repository
\*   "translated": convert_cookbook returns
\*   "api_error":  _call_anthropic_api raises
\*   "no_recipes": the cookbook is skipped
WebCookbooks == {"translated", "api_error", "no_recipes"}

\* the updates LLMConverter.convert_cookbook puts through the callback it was given
TranslatorUpdates(cookbook) ==
    IF cookbook = "translated"
    THEN <<Processing("convert_cookbook"), Update("completed", "convert_cookbook", FALSE)>>
    ELSE <<Processing("convert_cookbook"), Update("error", "_call_anthropic_api", FALSE)>>

\* the updates of one pass of the loop over the cookbooks
CookbookUpdates(cookbook) ==
    IF cookbook = "no_recipes" THEN <<Processing("run_conversion")>>
    ELSE IF cookbook = "translated"
    THEN <<Processing("run_conversion")>> \o TranslatorUpdates(cookbook)
             \o <<Processing("run_conversion")>>
    ELSE <<Processing("run_conversion")>> \o TranslatorUpdates(cookbook)

\* progress_callback(update), once for every update of a step
Put(updates) ==
    /\ progress_queue' = progress_queue \o updates
    /\ enqueued' = enqueued \o updates
    /\ enqueued_after_close' = (enqueued_after_close \/ stream_pc = "closed")

\* run_conversion up to the loop: the repository is cloned and its cookbooks found
\*   "raises":       clone_repository or find_cookbooks raises
\*   "no_cookbooks": none found; flash() then raises outside a request
\*   "cookbooks":    the loop begins
StartConversion(cookbooks, outcome) ==
    /\ thread_pc = "idle"
    /\ outcome = "cookbooks" <=> cookbooks # << >>
    /\ web_cookbooks' = cookbooks
    /\ web_index' = 1
    /\ CASE outcome = "raises" ->
              Put(<<Processing("run_conversion"), ErrorMessage>>) /\ thread_pc' = "done"
         [] outcome = "no_cookbooks" ->
              /\ Put(<<Processing("run_conversion"),
                       Update("error", "run_conversion", FALSE), ErrorMessage>>)
              /\ thread_pc' = "done"
         [] OTHER -> Put(<<Processing("run_conversion")>>) /\ thread_pc' = "looping"
    /\ UNCHANGED <<delivered, stream_pc, otherThanProgress>>

ProcessCookbook ==
    /\ thread_pc = "looping"
    /\ web_index <= Len(web_cookbooks)
    /\ Put(CookbookUpdates(web_cookbooks[web_index]))
    /\ web_index' = web_index + 1
    /\ UNCHANGED <<web_cookbooks, thread_pc, delivered, stream_pc, otherThanProgress>>

\* after the loop: cleanup, results.json is written, the completion message is put
FinishConversion(saved) ==
    /\ thread_pc = "looping"
    /\ web_index > Len(web_cookbooks)
    /\ Put(<<IF saved THEN completion_message ELSE ErrorMessage>>)
    /\ thread_pc' = "done"
    /\ UNCHANGED <<web_cookbooks, web_index, delivered, stream_pc, otherThanProgress>>

\* generate(): q.get() returns an update, which is sent; a completed or an
\* error update is followed by stream_end and ends the loop
Deliver ==
    /\ stream_pc = "open"
    /\ progress_queue # << >>
    /\ progress_queue' = Tail(progress_queue)
    /\ delivered' = IF IsFinal(Head(progress_queue))
                    THEN delivered \o <<Head(progress_queue), StreamEnd>>
                    ELSE Append(delivered, Head(progress_queue))
    /\ stream_pc' = IF IsFinal(Head(progress_queue)) THEN "closed" ELSE "open"
    /\ UNCHANGED <<web_cookbooks, thread_pc, web_index, enqueued, enqueued_after_close,
                   otherThanProgress>>

RECURSIVE SeqsUpTo(_, _)
SeqsUpTo(S, n) ==
    IF n = 0 THEN {<< >>}
    ELSE SeqsUpTo(S, n - 1) \cup {Append(s, x) : s \in SeqsUpTo(S, n - 1), x \in S}

Start_ ==
    \E cookbooks \in SeqsUpTo(WebCookbooks, MaxWebCookbooks),
       outcome \in {"raises", "no_cookbooks", "cookbooks"} :
        StartConversion(cookbooks, outcome)

Finish_ == \E saved \in BOOLEAN : FinishConversion(saved)

NextProgress == Start_ \/ ProcessCookbook \/ Finish_ \/ Deliver

SpecProgress == Init /\ [][NextProgress]_vars

Finals(updates) == {i \in DOMAIN updates : IsFinal(updates[i])}

\* C26: the thread puts exactly one completed or error update, as its last
\* one; a stream that has closed has delivered that update last before
\* stream_end; and nothing is put after the stream has closed.
C26_OneFinalUpdate ==
    /\ thread_pc = "done" => Finals(enqueued) = {Len(enqueued)}
    /\ stream_pc = "closed" =>
           /\ thread_pc = "done"
           /\ delivered[Len(delivered) - 1] = enqueued[Len(enqueued)]
    /\ ~enqueued_after_close

\* what holds instead: the stream closes at the first completed or error
\* update of the queue, whoever put it
C26_ClosesAtFirstFinal ==
    stream_pc = "closed" =>
        \E i \in Finals(enqueued) :
            /\ \A j \in Finals(enqueued) : i <= j
            /\ delivered = Sub(enqueued, 1, i) \o <<StreamEnd>>

(***************************************************************************)
(* SpecPaths: convert_templates on the templates of one cookbook, and the  *)
(* files generate_ansible_role writes for them.                            *)
(***************************************************************************)
otherThanPaths ==
    <<registryVars, lastCallVars, parVars, parserVars, recipeVars, templateVars, postVars,
      responseVars, convertVars, cloneVars, loadVars, repositoryVars, validateVars,
      progressVars>>

\* paths of template files below the templates directory of a cookbook
TemplatePaths ==
    {<<"d", "e", "f", "a", "u", "l", "t", "/", "f", "o", "o", ".", "e", "r", "b">>, <<"f", "o", "o", ".", "e", "r", "b">>, <<"f", "o", "o">>, <<"f", "o", "o", ".", "j", "2">>, <<"d", "e", "f", "a", "u", "l", "t", "/", "b", "a", "r", ".", "e", "r", "b">>, <<"u", "b", "u", "n", "t", "u", "/", "f", "o", "o", ".", "e", "r", "b">>}

basename(path) ==
    LET slashes == {i \in DOMAIN path : path[i] = "/"}
    IN  IF slashes = {} THEN path
        ELSE Sub(path, (CHOOSE i \in slashes : \A j \in slashes : j <= i) + 1, Len(path))

\* the record _find_templates makes of the file at a path
ChefTemplate(path) == ParsedTemplate(basename(path), path, T_text)

\* the files below templates/ of the role after generate_ansible_role: each
\* template is written to its path, over what an earlier one wrote there
RECURSIVE WriteTemplates(_, _, _)
WriteTemplates(dir, templates, i) ==
    IF i > Len(templates) THEN dir
    ELSE WriteTemplates(
             SelectSeq(dir, LAMBDA f : f.path # templates[i].path)
                 \o <<[path |-> templates[i].path, content |-> templates[i].content]>>,
             templates, i + 1)

FindTemplateFile(path) ==
    /\ converted_templates = << >>
    /\ Len(chef_templates) < MaxTemplateFiles
    /\ \A i \in DOMAIN chef_templates : chef_templates[i].path # path
    /\ chef_templates' = Append(chef_templates, ChefTemplate(path))
    /\ UNCHANGED <<converted_templates, templates_dir, otherThanPaths>>

\* ansible_templates = convert_templates(templates), then written into the role
ConvertTemplates ==
    /\ converted_templates = << >>
    /\ chef_templates # << >>
    /\ converted_templates' = convert_templates(chef_templates)
    /\ templates_dir' = WriteTemplates(<< >>, convert_templates(chef_templates), 1)
    /\ UNCHANGED <<chef_templates, otherThanPaths>>

FindTemplateFiles == \E path \in TemplatePaths : FindTemplateFile(path)

NextPaths == FindTemplateFiles \/ ConvertTemplates

SpecPaths == Init /\ [][NextPaths]_vars

\* C27: the templates of a cookbook, which have distinct paths, are given
\* distinct output paths that end in .j2, so that each is written to a file
\* of its own.
C27_DistinctOutputPaths ==
    converted_templates # << >> =>
        /\ Len(converted_templates) = Len(chef_templates)
        /\ \A i, j \in DOMAIN converted_templates :
               i # j => converted_templates[i].path # converted_templates[j].path
        /\ \A i \in DOMAIN converted_templates : EndsWith(converted_templates[i].path, <<".", "j", "2">>)
        /\ Len(templates_dir) = Len(chef_templates)

\* what holds instead: every output path ends in .j2 and is the input path
\* without a leading default/ and without a trailing .erb
C27_OutputPathsEndInJ2 ==
    converted_templates # << >> =>
        /\ Len(converted_templates) = Len(chef_templates)
        /\ \A i \in DOMAIN converted_templates :
               /\ EndsWith(converted_templates[i].path, <<".", "j", "2">>)
               /\ converted_templates[i].path = NewPath(chef_templates[i].path)

(***************************************************************************)
(* SpecLookup: templates made of attribute lookups and plain text are      *)
(* transpiled.                                                             *)
(***************************************************************************)
\* a piece of a template: an output tag around a lookup of nested attribute
\* names in the string form or the symbol form, or plain text
LookupPiece(form, names) == [form |-> form, names |-> names]
TextPiece(text) == [form |-> "text", text |-> text]

SpecialAttributes ==
    (<<"h", "o", "s", "t", "n", "a", "m", "e">> :> <<"a", "n", "s", "i", "b", "l", "e", "_", "h", "o", "s", "t", "n", "a", "m", "e">>)
    @@ (<<"i", "p", "a", "d", "d", "r", "e", "s", "s">> :> <<"a", "n", "s", "i", "b", "l", "e", "_", "d", "e", "f", "a", "u", "l", "t", "_", "i", "p", "v", "4", ".", "a", "d", "d", "r", "e", "s", "s">>)
    @@ (<<"p", "l", "a", "t", "f", "o", "r", "m">> :> <<"a", "n", "s", "i", "b", "l", "e", "_", "d", "i", "s", "t", "r", "i", "b", "u", "t", "i", "o", "n">>)
    @@ (<<"p", "l", "a", "t", "f", "o", "r", "m", "_", "v", "e", "r", "s", "i", "o", "n">> :> <<"a", "n", "s", "i", "b", "l", "e", "_", "d", "i", "s", "t", "r", "i", "b", "u", "t", "i", "o", "n", "_", "v", "e", "r", "s", "i", "o", "n">>)

AttributePaths ==
    {<<a>> : a \in DOMAIN SpecialAttributes \cup {<<"p", "o", "r", "t">>, <<"m", "y", "_", "h", "o", "s", "t", "n", "a", "m", "e">>}}
    \cup {<<<<"n", "g", "i", "n", "x">>, <<"p", "o", "r", "t">>>>, <<<<"n", "g", "i", "n", "x">>, <<"h", "o", "s", "t", "n", "a", "m", "e">>>>, <<<<"n", "g", "i", "n", "x">>, <<"s", "s", "l">>, <<"p", "o", "r", "t">>>>}

LookupPieces ==
    {LookupPiece(form, names) : form \in {"string", "symbol"}, names \in AttributePaths}
    \cup {TextPiece(<<"s", "e", "r", "v", "e", "r", " ">>), TextPiece(<<"h", "o", "s", "t", "n", "a", "m", "e", ":", " ">>)}

RECURSIVE Brackets(_, _, _)
Brackets(form, names, i) ==
    IF i > Len(names) THEN << >>
    ELSE (IF form = "string" THEN <<"[", "'">> \o names[i] \o <<"'", "]">> ELSE <<"[", ":">> \o names[i] \o <<"]">>)
         \o Brackets(form, names, i + 1)

\* the text of a piece in the source template
PieceText(piece) ==
    IF piece.form = "text" THEN piece.text
    ELSE <<"<", "%", "=", " ", "n", "o", "d", "e">> \o Brackets(piece.form, piece.names, 1) \o <<" ", "%", ">">>

RECURSIVE JoinNames(_, _)
JoinNames(names, i) ==
    IF i = Len(names) THEN names[i] ELSE names[i] \o <<"_">> \o JoinNames(names, i + 1)

\* the variable a lookup is to become
TargetVariable(names) ==
    IF Len(names) = 1 /\ names[1] \in DOMAIN SpecialAttributes
    THEN SpecialAttributes[names[1]]
    ELSE JoinNames(names, 1)

\* the text a piece is to become
PieceTarget(piece) ==
    IF piece.form = "text" THEN piece.text
    ELSE <<"{", "{", " ">> \o TargetVariable(piece.names) \o <<" ", "}", "}">>

RECURSIVE TemplateTarget(_, _)
TemplateTarget(pieces, i) ==
    IF i > Len(pieces) THEN << >>
    ELSE PieceTarget(pieces[i]) \o TemplateTarget(pieces, i + 1)

WritePiece(piece) ==
    /\ passes = 0
    /\ Len(template_tags) < MaxPieces
    /\ template_tags' = Append(template_tags, piece)
    /\ template_content' = template_content \o PieceText(piece)
    /\ UNCHANGED <<jinja_content, jinja_again, passes, otherThanTemplate>>

WriteLookup == \E piece \in LookupPieces : WritePiece(piece)

NextLookup == WriteLookup \/ Transpile

SpecLookup == Init /\ [][NextLookup]_vars

\* C28: every lookup of a template is transpiled to its attribute names
\* joined by underscores, a lookup of exactly one special attribute to its
\* target variable, and nothing else of the template is changed.
C28_LookupsRenamed ==
    passes = 1 => jinja_content = TemplateTarget(template_tags, 1)

HasSpecialWord(text) ==
    \E w \in {<<"h", "o", "s", "t", "n", "a", "m", "e">>, <<"i", "p", "a", "d", "d", "r", "e", "s", "s">>, <<"p", "l", "a", "t", "f", "o", "r", "m">>} : Contains(text, w)

\* what holds instead: a template is transpiled so unless one of the special
\* words stands in its text or inside an attribute name of a lookup
C28_WithoutSpecialWords ==
    (/\ passes = 1
     /\ \A i \in DOMAIN template_tags :
            \/ template_tags[i].form = "text" /\ ~HasSpecialWord(template_tags[i].text)
            \/ /\ template_tags[i].form # "text"
               /\ \/ Len(template_tags[i].names) = 1
                     /\ template_tags[i].names[1] \in DOMAIN SpecialAttributes
                  \/ \A k \in DOMAIN template_tags[i].names :
                         ~HasSpecialWord(template_tags[i].names[k]))
        => jinja_content = TemplateTarget(template_tags, 1)

(***************************************************************************)
(* SpecAlias: templates made of tags on one identifier are transpiled.     *)
(***************************************************************************)
\* a tag on an identifier: an output tag, a conditional-open tag (if, elsif)
IdentifierTag(kind, identifier) == [kind |-> kind, identifier |-> identifier]

Identifiers == {<<"n", "a", "m", "e">>, <<"n", "a", "m", "e", "s">>, <<"n", "a", "m", "e", "_", "l", "i", "s", "t">>, <<"s", "s", "l">>}

IdentifierTags ==
    {IdentifierTag(kind, identifier) :
        kind \in {"output", "if", "elsif"}, identifier \in Identifiers}
    \cup {[kind |-> "text", text |-> <<"n", "a", "m", "e", ":", " ">>]}

\* the text of a tag in the source template
TagText(tag) ==
    CASE tag.kind = "output" -> <<"<", "%", "=", " ">> \o tag.identifier \o <<" ", "%", ">">>
      [] tag.kind = "if" -> <<"<", "%", " ", "i", "f", " ">> \o tag.identifier \o <<" ", "%", ">">>
      [] tag.kind = "elsif" -> <<"<", "%", " ", "e", "l", "s", "i", "f", " ">> \o tag.identifier \o <<" ", "%", ">">>
      [] OTHER -> tag.text

\* the identifier after the reserved name has been replaced by its alias
Aliased(identifier) == IF identifier = <<"n", "a", "m", "e">> THEN <<"h", "o", "s", "t", "n", "a", "m", "e">> ELSE identifier

\* the text a tag is to become
TagTarget(tag) ==
    CASE tag.kind = "output" -> <<"{", "{", " ">> \o Aliased(tag.identifier) \o <<" ", "}", "}">>
      [] tag.kind = "if" -> <<"{", "%", " ", "i", "f", " ">> \o Aliased(tag.identifier) \o <<" ", "%", "}">>
      [] tag.kind = "elsif" -> <<"{", "%", " ", "e", "l", "i", "f", " ">> \o Aliased(tag.identifier) \o <<" ", "%", "}">>
      [] OTHER -> tag.text

RECURSIVE TagsTarget(_, _)
TagsTarget(tags, i) ==
    IF i > Len(tags) THEN << >> ELSE TagTarget(tags[i]) \o TagsTarget(tags, i + 1)

WriteIdentifierTag(tag) ==
    /\ passes = 0
    /\ Len(template_tags) < MaxPieces
    /\ template_tags' = Append(template_tags, tag)
    /\ template_content' = template_content \o TagText(tag)
    /\ UNCHANGED <<jinja_content, jinja_again, passes, otherThanTemplate>>

WriteAlias == \E tag \in IdentifierTags : WriteIdentifierTag(tag)

NextAlias == WriteAlias \/ Transpile

SpecAlias == Init /\ [][NextAlias]_vars

\* C29: in the transpiled text the identifier name of every output tag and
\* of every if and elsif tag has become the alias, and every other
\* identifier is the one of the source.
C29_NameAliased ==
    passes = 1 => jinja_content = TagsTarget(template_tags, 1)

\* what holds instead: output tags are transpiled so, and if tags on an
\* identifier that does not begin with name; the name of an elsif tag is
\* left as it is and an if tag on names becomes one on hostnames
C29_OutputTagsAliased ==
    /\ (/\ passes = 1
        /\ \A i \in DOMAIN template_tags :
               \/ template_tags[i].kind \in {"output", "text"}
               \/ template_tags[i].kind = "if" /\ template_tags[i].identifier \in {<<"n", "a", "m", "e">>, <<"s", "s", "l">>}
               \/ template_tags[i].kind = "elsif" /\ template_tags[i].identifier # <<"n", "a", "m", "e">>)
           => jinja_content = TagsTarget(template_tags, 1)
    /\ (passes = 1 /\ template_tags = <<IdentifierTag("elsif", <<"n", "a", "m", "e">>)>>)
           => jinja_content = <<"{", "%", " ", "e", "l", "i", "f", " ", "n", "a", "m", "e", " ", "%", "}">>
    /\ (passes = 1 /\ template_tags = <<IdentifierTag("if", <<"n", "a", "m", "e", "s">>)>>)
           => jinja_content = <<"{", "%", " ", "i", "f", " ", "h", "o", "s", "t", "n", "a", "m", "e", "s", " ", "%", "}">>

(***************************************************************************)
(* SpecBlocks: templates of loop and conditional blocks, one tag a line,   *)
(* are transpiled.                                                         *)
(***************************************************************************)
\* the lines of a template, by kind
BlockLines == ("if" :> T_if) @@ ("each" :> T_each) @@ ("end" :> T_end) @@ ("text" :> T_text)

WriteLine(kind) ==
    /\ passes = 0
    /\ Len(template_tags) < MaxLines
    /\ template_tags' = Append(template_tags, kind)
    /\ template_content' = template_content \o BlockLines[kind] \o <<"\n">>
    /\ UNCHANGED <<jinja_content, jinja_again, passes, otherThanTemplate>>

WriteBlockLine == \E kind \in DOMAIN BlockLines : WriteLine(kind)

NextBlocks == WriteBlockLine \/ Transpile

SpecBlocks == Init /\ [][NextBlocks]_vars

\* the blocks open after the lines i.. of a template, innermost first;
\* <<"unbalanced">> on top when a close has nothing to close
RECURSIVE OpenBlocks(_, _, _)
OpenBlocks(kinds, i, stack) ==
    IF i > Len(kinds) \/ (stack # << >> /\ Head(stack) = "unbalanced") THEN stack
    ELSE CASE kinds[i] \in {"if", "each"} -> OpenBlocks(kinds, i + 1, <<kinds[i]>> \o stack)
           [] kinds[i] = "end" ->
                IF stack = << >> THEN <<"unbalanced">>
                ELSE OpenBlocks(kinds, i + 1, Tail(stack))
           [] OTHER -> OpenBlocks(kinds, i + 1, stack)

\* every close closes a block, every block is closed, none is more than two deep
WellNested(kinds) ==
    /\ OpenBlocks(kinds, 1, << >>) = << >>
    /\ \A n \in DOMAIN kinds : Len(OpenBlocks(Sub(kinds, 1, n), 1, << >>)) <= 2

\* the block tags of a transpiled text, in the order they stand in it
RECURSIVE JinjaTags(_, _)
JinjaTags(text, k) ==
    IF k > Len(text) THEN << >>
    ELSE (CASE StartsWith(text, k, <<"{", "%", " ", "f", "o", "r", " ">>) -> <<"for">>
            [] StartsWith(text, k, <<"{", "%", " ", "i", "f", " ">>) -> <<"if">>
            [] StartsWith(text, k, <<"{", "%", " ", "e", "n", "d", "f", "o", "r", " ", "%", "}">>) -> <<"endfor">>
            [] StartsWith(text, k, <<"{", "%", " ", "e", "n", "d", "i", "f", " ", "%", "}">>) -> <<"endif">>
            [] OTHER -> << >>) \o JinjaTags(text, k + 1)

\* every endfor closes a for and every endif an if, and every block is closed
RECURSIVE Labelled(_, _, _)
Labelled(tags, i, stack) ==
    IF i > Len(tags) THEN stack = << >>
    ELSE CASE tags[i] \in {"for", "if"} -> Labelled(tags, i + 1, <<tags[i]>> \o stack)
           [] tags[i] = "endfor" ->
                stack # << >> /\ Head(stack) = "for" /\ Labelled(tags, i + 1, Tail(stack))
           [] OTHER ->
                stack # << >> /\ Head(stack) = "if" /\ Labelled(tags, i + 1, Tail(stack))

\* C30: a well-nested template of blocks at most two deep is transpiled to
\* well-nested tags in which every endfor closes a for and every endif an if.
C30_ClosesLabelled ==
    (passes = 1 /\ WellNested(template_tags)) => Labelled(JinjaTags(jinja_content, 1), 1, << >>)

\* the closes of a template, each by the kind of block it closes
RECURSIVE Closes(_, _, _)
Closes(kinds, i, stack) ==
    IF i > Len(kinds) THEN << >>
    ELSE CASE kinds[i] \in {"if", "each"} -> Closes(kinds, i + 1, <<kinds[i]>> \o stack)
           [] kinds[i] = "end" -> <<Head(stack)>> \o Closes(kinds, i + 1, Tail(stack))
           [] OTHER -> Closes(kinds, i + 1, stack)

\* what holds instead: the closes are labelled right when every close of a
\* conditional stands before every close of a loop
C30_ConditionalsCloseFirst ==
    (/\ passes = 1
     /\ WellNested(template_tags)
     /\ LET closes == Closes(template_tags, 1, << >>)
        IN  \A i, j \in DOMAIN closes : (closes[i] = "each" /\ closes[j] = "if") => j < i)
        => Labelled(JinjaTags(jinja_content, 1), 1, << >>)

====
